---- MODULE Spec2Model ----
(***************************************************************************)
(* State-machine model of BetterConnectedPositionStrategy (the final       *)
(* iteration in better-connected-position-strategy.ts, lines 1518-2225)    *)
(* and of CdkStepper with its CdkStep children (cdk/stepper/stepper.ts).   *)
(*                                                                         *)
(* Lengths are integers.  Every measured coordinate is drawn from a grid   *)
(* of multiples of 4, so that each division by two the code performs       *)
(* (rect.width / 2, _lastBoundingBoxHeight / 2) is exact in integers.      *)
(***************************************************************************)
EXTENDS Integers, Sequences, FiniteSets, TLC

VARIABLES
    \* configuration (builder calls and the attached overlay's state)
    preferredPositions,   \* _preferredPositions
    viewportMargin,       \* _viewportMargin
    canPush,              \* _canPush
    growAfterOpen,        \* _growAfterOpen
    hasFlexibleHeight,    \* _hasFlexibleHeight
    hasFlexibleWidth,     \* _hasFlexibleWidth
    scrollables,          \* rects of the Scrollable containers
    overlayState,         \* _overlayRef.getState(): direction, min/max sizes
    \* layout the strategy measures
    originEl,             \* what _origin.getBoundingClientRect() returns now
    paneEl,               \* what _pane.getBoundingClientRect() returns now
    viewportEl,           \* what _viewportRuler.getViewportRect() returns now
    \* strategy fields
    isInitialRender,      \* _isInitialRender
    lastBoundingBoxHeight,\* _lastBoundingBoxHeight
    lastBoundingBoxWidth, \* _lastBoundingBoxWidth
    lastBoundingBoxRect,  \* _lastBoundingBoxRect
    isPushed,             \* _isPushed
    lastPosition,         \* _lastPosition: index into preferredPositions, 0 = undefined
    originRect,           \* _originRect (cached measurement)
    overlayRect,          \* _overlayRect (cached measurement)
    viewportRect,         \* _viewportRect (cached, narrowed by the margin)
    \* what a pass writes
    paneStyle,            \* _pane.style
    boundingBoxStyle,     \* _boundingBox.style
    positionChange,       \* the events the last call emitted on _positionChange
    \* position of the last call
    lastCall,             \* which method ran last and how it ended
    \* the overlay the strategy is bound to (ids; 0 = undefined)
    overlayRef,           \* _overlayRef
    pane,                 \* _pane: the overlay element of the attached overlay
    \* the sizing wrapper in the DOM
    boundingBox,          \* _boundingBox: "undefined", or whether it has a parent node
    wrappersInDocument,   \* which wrappers the strategy created are in the document
    \* the order of the last call's layout reads and style writes
    passLog,              \* measurements and style writes of the last call, in order
    \* the stepper (CdkStepper and its CdkStep children)
    steps,                \* the CdkStep components, in document order
    stepsPresent,         \* whether the _steps query list has been resolved
    stepHeaderPresent,    \* whether a subclass has supplied _stepHeader
    linear,               \* _linear
    selectedIndex,        \* _selectedIndex (0-based, as in the code)
    focusIndex,           \* _focusIndex
    selectionChange,      \* the events the last call emitted on selectionChange
    stepperCall,          \* which stepper method ran last, its argument and how it ended
    dir,                  \* _dir.value, "none" when no Directionality was injected
    orientation,          \* _orientation
    \* the connected-overlay directive (CdkConnectedOverlay)
    openInput,            \* the open input
    positionsInput,       \* the positions field: None while undefined, else <<list>>
    directiveOverlayRef,  \* _overlayRef: 0 while undefined, else the overlay's id
    hasAttached,          \* _overlayRef.hasAttached()
    strategyPositions,    \* the candidates of _position, in rank order; None without strategy
    overlaysCreated,      \* how many overlays Overlay.create has made for the directive
    strategiesCreated,    \* how many strategies _createPositionStrategy has made
    emitted,              \* the attach and detach events the last handler emitted
    lastEvent,            \* the last attach or detach event emitted so far
    hasBackdrop,          \* _hasBackdrop
    lockPosition,         \* _lockPosition
    backdropSubscribed,   \* whether _backdropSubscription is a live subscription
    strategyLocked        \* what withLockedPosition last gave _position; FALSE without strategy

config == <<preferredPositions, viewportMargin, canPush, growAfterOpen,
            hasFlexibleHeight, hasFlexibleWidth, scrollables, overlayState>>
layout == <<originEl, paneEl, viewportEl>>
fields == <<isInitialRender, lastBoundingBoxHeight, lastBoundingBoxWidth,
            lastBoundingBoxRect, isPushed, lastPosition,
            originRect, overlayRect, viewportRect>>
output == <<paneStyle, boundingBoxStyle, positionChange>>
binding == <<overlayRef, pane>>
dom == <<boundingBox, wrappersInDocument>>
strategy == <<config, layout, fields, output, lastCall, binding, dom, passLog>>
keyboard == <<dir, orientation>>
stepper == <<steps, stepsPresent, stepHeaderPresent, linear, selectedIndex, focusIndex,
             selectionChange, stepperCall, keyboard>>
directive == <<openInput, positionsInput, directiveOverlayRef, hasAttached,
               strategyPositions, overlaysCreated, strategiesCreated, emitted, lastEvent,
               hasBackdrop, lockPosition, backdropSubscribed, strategyLocked>>
vars == <<strategy, stepper, directive>>

----------------------------------------------------------------------------
(* Values *)

Max(a, b) == IF a >= b THEN a ELSE b
Min(a, b) == IF a <= b THEN a ELSE b
Abs(a) == IF a < 0 THEN -a ELSE a

\* An optional value: <<>> is undefined, <<v>> is v.
None == <<>>
Some(n) == <<n>>
IsSome(o) == Len(o) = 1
Val(o) == o[1]
\* JavaScript truthiness of an optional number: undefined and 0 are falsy.
Truthy(o) == IsSome(o) /\ Val(o) # 0
\* `o || d` on an optional number.
OrElse(o, d) == IF Truthy(o) THEN Val(o) ELSE d

\* A ClientRect; right and bottom follow from the other four.
Rect(top, left, width, height) ==
    [top |-> top, left |-> left, right |-> left + width, bottom |-> top + height,
     width |-> width, height |-> height]

Point(x, y) == [x |-> x, y |-> y]

\* A CSS value: '' (unset), `${n}px`, '100vw', '100vh', 'normal'.  The reset
\* value '0' is the length 0px.
CssUnset == [unit |-> "", n |-> 0]
CssZero == [unit |-> "px", n |-> 0]
Px(n) == [unit |-> "px", n |-> n]
Css100vw == [unit |-> "vw", n |-> 100]
Css100vh == [unit |-> "vh", n |-> 100]
CssNormal == [unit |-> "normal", n |-> 0]

\* A ConnectedPosition; weight is optional, an offset of 0 stands for unset
\* (the code only tests offsets for truthiness).
Position(ox, oy, vx, vy, w, dx, dy) ==
    [originX |-> ox, originY |-> oy, overlayX |-> vx, overlayY |-> vy,
     weight |-> w, offsetX |-> dx, offsetY |-> dy]

isRtl == overlayState.direction = "rtl"

----------------------------------------------------------------------------
(* Pure helpers of the strategy *)

\* _narrowViewportRect
narrowViewportRect(rect, margin) ==
    [top |-> rect.top + margin,
     left |-> rect.left + margin,
     right |-> rect.right - margin,
     bottom |-> rect.bottom - margin,
     width |-> rect.width - (2 * margin),
     height |-> rect.height - (2 * margin)]

\* _getStartX, _getEndX
getStartX(rect) == IF isRtl THEN rect.right ELSE rect.left
getEndX(rect) == IF isRtl THEN rect.left ELSE rect.right

\* _getOriginPoint
getOriginPoint(oRect, pos) ==
    LET originStartX == getStartX(oRect)
        originEndX == getEndX(oRect)
        x == IF pos.originX = "center" THEN originStartX + (oRect.width \div 2)
             ELSE IF pos.originX = "start" THEN originStartX ELSE originEndX
        y == IF pos.originY = "center" THEN oRect.top + (oRect.height \div 2)
             ELSE IF pos.originY = "top" THEN oRect.top ELSE oRect.bottom
    IN Point(x, y)

\* An overlay point that puts the overlay's top-left corner on the origin
\* point whatever corner the position names.
getOverlayPointTopLeft(originPoint, vRect, pos) == originPoint

\* _getOverlayPoint
getOverlayPoint(originPoint, vRect, pos) ==
    LET overlayStartX ==
            IF pos.overlayX = "center" THEN (-vRect.width) \div 2
            ELSE IF pos.overlayX = "start"
                 THEN (IF isRtl THEN -vRect.width ELSE 0)
                 ELSE (IF isRtl THEN 0 ELSE -vRect.width)
        overlayStartY ==
            IF pos.overlayY = "center" THEN (-vRect.height) \div 2
            ELSE IF pos.overlayY = "top" THEN 0 ELSE -vRect.height
    IN Point(originPoint.x + overlayStartX, originPoint.y + overlayStartY)

\* _subtractOverflows, for the two overflows of one axis
subtractOverflows(length, overflowA, overflowB) ==
    (length - Max(overflowA, 0)) - Max(overflowB, 0)

\* A fit measured against the first scrollable container, when there is
\* one, instead of the viewport.
getOverlayFitInContainer(point, overlay, viewport) ==
    LET box == IF scrollables = <<>> THEN viewport ELSE scrollables[1]
        visibleWidth == subtractOverflows(overlay.width, 0 - point.x,
                                          (point.x + overlay.width) - box.width)
        visibleHeight == subtractOverflows(overlay.height, 0 - point.y,
                                           (point.y + overlay.height) - box.height)
    IN [visibleArea |-> visibleWidth * visibleHeight,
        isCompletelyWithinViewport |->
            (overlay.width * overlay.height) = visibleWidth * visibleHeight,
        fitsInViewportVertically |-> visibleHeight = overlay.height,
        fitsInViewportHorizontally |-> visibleWidth = overlay.width]

\* _getOverlayFit
getOverlayFit(point, overlay, viewport) ==
    LET leftOverflow == 0 - point.x
        rightOverflow == (point.x + overlay.width) - viewport.width
        topOverflow == 0 - point.y
        bottomOverflow == (point.y + overlay.height) - viewport.height
        visibleWidth == subtractOverflows(overlay.width, leftOverflow, rightOverflow)
        visibleHeight == subtractOverflows(overlay.height, topOverflow, bottomOverflow)
        visibleArea == visibleWidth * visibleHeight
    IN [visibleArea |-> visibleArea,
        isCompletelyWithinViewport |-> (overlay.width * overlay.height) = visibleArea,
        fitsInViewportVertically |-> visibleHeight = overlay.height,
        fitsInViewportHorizontally |-> visibleWidth = overlay.width]

\* _canFitWithFlexibleDimensions; the undefined returned when the outer test
\* fails is falsy at its only call site.
canFitWithFlexibleDimensions(fit, point, viewport) ==
    IF hasFlexibleWidth \/ hasFlexibleWidth
    THEN LET availableHeight == viewport.bottom - point.y
             availableWidth == viewport.right - point.x
             minHeight == OrElse(overlayState.minHeight, 0)
             minWidth == OrElse(overlayState.minWidth, 0)
             verticalFit == fit.fitsInViewportVertically
                              \/ (hasFlexibleHeight /\ minHeight <= availableHeight)
             horizontalFit == fit.fitsInViewportHorizontally
                              \/ (hasFlexibleWidth /\ minWidth <= availableWidth)
         IN verticalFit /\ horizontalFit
    ELSE FALSE

\* Pushing that only ever pulls the overlay back from the right and bottom
\* edges, whatever its size.
pushFromFarEdgesOnly(start, overlay, viewport) ==
    LET overflowRight == Max((start.x + overlay.width) - viewport.right, 0)
        overflowBottom == Max((start.y + overlay.height) - viewport.bottom, 0)
    IN Point(start.x - overflowRight, start.y - overflowBottom)

\* Pushing without the branch for an overlay larger than the viewport.
pushAsIfSmaller(start, overlay, viewport) ==
    LET overflowRight == Max((start.x + overlay.width) - viewport.right, 0)
        overflowBottom == Max((start.y + overlay.height) - viewport.bottom, 0)
        overflowTop == Max(viewport.top - start.y, 0)
        overflowLeft == Max(viewport.left - start.x, 0)
        pushX == IF overflowLeft # 0 THEN overflowLeft ELSE -overflowRight
        pushY == IF overflowTop # 0 THEN overflowTop ELSE -overflowBottom
    IN Point(start.x + pushX, start.y + pushY)

\* _pushOverlayOnScreen; viewport is this._viewportRect
pushOverlayOnScreen(start, overlay, viewport) ==
    LET overflowRight == Max((start.x + overlay.width) - viewport.right, 0)
        overflowBottom == Max((start.y + overlay.height) - viewport.bottom, 0)
        overflowTop == Max(viewport.top - start.y, 0)
        overflowLeft == Max(viewport.left - start.x, 0)
        pushX == IF overlay.width <= viewport.width
                 THEN (IF overflowLeft # 0 THEN overflowLeft ELSE -overflowRight)
                 ELSE viewport.left - start.x
        pushY == IF overlay.height <= viewport.height
                 THEN (IF overflowTop # 0 THEN overflowTop ELSE -overflowBottom)
                 ELSE viewport.top - start.y
    IN Point(start.x + pushX, start.y + pushY)

\* _calculateBoundingBoxRect; viewport is this._viewportRect, initial is
\* this._isInitialRender.  top/bottom/left/right are optional.
calculateBoundingBoxRect(origin, position, viewport, initial) ==
    LET smallestY == Min(viewport.bottom - origin.y, origin.y - viewport.left)
        vert ==
            IF position.overlayY = "top"
            THEN [top |-> Some(origin.y), bottom |-> None,
                  height |-> viewport.bottom - origin.y]
            ELSE IF position.overlayY = "bottom"
            THEN [top |-> None,
                  bottom |-> Some((viewport.bottom - origin.y) + viewportMargin),
                  height |-> origin.y - viewport.top]
            ELSE [top |-> IF smallestY * 2 > lastBoundingBoxHeight
                             /\ ~initial /\ ~growAfterOpen
                          THEN Some(origin.y - (lastBoundingBoxHeight \div 2))
                          ELSE Some(origin.y - smallestY),
                  bottom |-> None,
                  height |-> smallestY * 2]
        isBoundedByRightViewportEdge ==
            (position.overlayX = "start" /\ ~isRtl) \/ (position.overlayX = "end" /\ isRtl)
        isBoundedByLeftViewportEdge ==
            (position.overlayX = "end" /\ ~isRtl) \/ (position.overlayX = "start" /\ isRtl)
        smallestX == Min(viewport.right - origin.x, origin.x - viewport.top)
        horiz ==
            IF isBoundedByLeftViewportEdge
            THEN [left |-> None,
                  right |-> Some((viewport.right - origin.x) + viewportMargin),
                  width |-> origin.x - viewport.left]
            ELSE IF isBoundedByRightViewportEdge
            THEN [left |-> Some(origin.x), right |-> None,
                  width |-> viewport.right - origin.x]
            ELSE [left |-> IF smallestX * 2 > lastBoundingBoxWidth
                              /\ ~initial /\ ~growAfterOpen
                           THEN Some(origin.x - (lastBoundingBoxWidth \div 2))
                           ELSE Some(origin.x - smallestX),
                  right |-> None,
                  width |-> smallestX * 2]
    IN [top |-> vert.top, left |-> horiz.left, bottom |-> vert.bottom,
        right |-> horiz.right, width |-> horiz.width, height |-> vert.height]

\* An outside-view test reduced with AND over the containers.
isElementOutsideEveryView(elementBounds, containersBounds) ==
    \A i \in 1..Len(containersBounds) :
        LET c == containersBounds[i]
        IN \/ elementBounds.bottom < c.top
           \/ elementBounds.top > c.bottom
           \/ elementBounds.right < c.left
           \/ elementBounds.left > c.right

\* isElementOutsideView: a reduction with OR over the containers
isElementOutsideView(elementBounds, containersBounds) ==
    \E i \in 1..Len(containersBounds) :
        LET c == containersBounds[i]
        IN \/ elementBounds.bottom < c.top
           \/ elementBounds.top > c.bottom
           \/ elementBounds.right < c.left
           \/ elementBounds.left > c.right

\* isElementClipped: a reduction with OR over the containers
isElementClipped(elementBounds, containersBounds) ==
    \E i \in 1..Len(containersBounds) :
        LET c == containersBounds[i]
        IN \/ elementBounds.top < c.top
           \/ elementBounds.bottom > c.bottom
           \/ elementBounds.left < c.left
           \/ elementBounds.right > c.right

\* _getScrollVisibility, on the cached origin and overlay rects
getScrollVisibility(oRect, vRect) ==
    [isOriginClipped |-> isElementClipped(oRect, scrollables),
     isOriginOutsideView |-> isElementOutsideView(oRect, scrollables),
     isOverlayClipped |-> isElementClipped(vRect, scrollables),
     isOverlayOutsideView |-> isElementOutsideView(vRect, scrollables)]

----------------------------------------------------------------------------
(* The scan of apply() over the preferred positions *)

\* What the loop body of apply() computes for the candidate at index i.
candidate(i, positions, oRect, vRect, viewport) ==
    LET pos == positions[i]
        originPoint == getOriginPoint(oRect, pos)
        overlayPoint == getOverlayPoint(originPoint, vRect, pos)
    IN [pos |-> pos, originPoint |-> originPoint, overlayPoint |-> overlayPoint,
        overlayFit |-> getOverlayFit(overlayPoint, vRect, viewport)]

\* The loop of apply(), from index i on: stops at the first candidate that
\* fits completely (fit = its index), otherwise collects the flexible fits
\* and the fallback (an index, 0 while undefined).
RECURSIVE scanPositions(_, _, _, _, _, _, _)
scanPositions(i, positions, oRect, vRect, viewport, flexibleFits, fallback) ==
    IF i > Len(positions)
    THEN [fit |-> 0, flexibleFits |-> flexibleFits, fallback |-> fallback]
    ELSE
      LET c == candidate(i, positions, oRect, vRect, viewport)
      IN IF c.overlayFit.isCompletelyWithinViewport
         THEN [fit |-> i, flexibleFits |-> flexibleFits, fallback |-> fallback]
         ELSE IF canFitWithFlexibleDimensions(c.overlayFit, c.overlayPoint, viewport)
         THEN scanPositions(i + 1, positions, oRect, vRect, viewport,
                            Append(flexibleFits, i), fallback)
         ELSE IF fallback = 0
                 \/ candidate(fallback, positions, oRect, vRect, viewport)
                        .overlayFit.visibleArea < c.overlayFit.visibleArea
         THEN scanPositions(i + 1, positions, oRect, vRect, viewport, flexibleFits, i)
         ELSE scanPositions(i + 1, positions, oRect, vRect, viewport,
                            flexibleFits, fallback)

\* A score that takes a weight of 0 as given and only an unset weight as 1.
flexibleScoreZeroAsGiven(i, positions, oRect, viewport, initial) ==
    LET rect == calculateBoundingBoxRect(getOriginPoint(oRect, positions[i]),
                                         positions[i], viewport, initial)
    IN rect.width * rect.height
          * (IF IsSome(positions[i].weight) THEN Val(positions[i].weight) ELSE 1)

\* The score apply() gives a recorded flexible fit.
flexibleScore(i, positions, oRect, viewport, initial) ==
    LET rect == calculateBoundingBoxRect(getOriginPoint(oRect, positions[i]),
                                         positions[i], viewport, initial)
    IN rect.width * rect.height * OrElse(positions[i].weight, 1)

\* The best-fit loop of apply() over flexibleFits, from entry k on; bestFit
\* is an index into positions, 0 while it is null.
RECURSIVE bestFlexibleFit(_, _, _, _, _, _, _, _)
bestFlexibleFit(k, flexibleFits, positions, oRect, viewport, initial, bestFit, bestScore) ==
    IF k > Len(flexibleFits) THEN bestFit
    ELSE LET score == flexibleScore(flexibleFits[k], positions, oRect, viewport, initial)
         IN IF score > bestScore
            THEN bestFlexibleFit(k + 1, flexibleFits, positions, oRect, viewport,
                                 initial, flexibleFits[k], score)
            ELSE bestFlexibleFit(k + 1, flexibleFits, positions, oRect, viewport,
                                 initial, bestFit, bestScore)

\* The decision of apply() on freshly measured rects: which branch it takes,
\* the position it applies (0 when it throws instead), the point it passes
\* to _applyPosition and the value it leaves in _isPushed.
applyDecision(positions, oRect, vRect, viewport, initial) ==
    LET scan == scanPositions(1, positions, oRect, vRect, viewport, <<>>, 0)
        best == bestFlexibleFit(1, scan.flexibleFits, positions, oRect, viewport,
                                initial, 0, -1)
    IN IF scan.fit # 0
       THEN [branch |-> "complete", pos |-> scan.fit, pushed |-> FALSE,
             origin |-> getOriginPoint(oRect, positions[scan.fit])]
       ELSE IF Len(scan.flexibleFits) # 0
       THEN IF best = 0
            THEN [branch |-> "TypeError", pos |-> 0, pushed |-> FALSE,
                  origin |-> Point(0, 0)]
            ELSE [branch |-> "flexible", pos |-> best, pushed |-> FALSE,
                  origin |-> getOriginPoint(oRect, positions[best])]
       ELSE IF scan.fallback = 0
       THEN [branch |-> "TypeError", pos |-> 0, pushed |-> isPushed,
             origin |-> Point(0, 0)]
       ELSE IF canPush
       THEN [branch |-> "push", pos |-> scan.fallback, pushed |-> TRUE,
             origin |-> pushOverlayOnScreen(
                            candidate(scan.fallback, positions, oRect, vRect, viewport)
                                .overlayPoint, vRect, viewport)]
       ELSE [branch |-> "fallback", pos |-> scan.fallback, pushed |-> isPushed,
             origin |-> getOriginPoint(oRect, positions[scan.fallback])]

----------------------------------------------------------------------------
(* Style writes *)

\* `value ? `${value}px` : ''` on an optional number
PxIfTruthy(o) == IF Truthy(o) THEN Px(Val(o)) ELSE CssUnset

\* The style of the div _creatingBoundingBox returns: nothing set.
createdBoundingBoxStyle ==
    [top |-> CssUnset, left |-> CssUnset, bottom |-> CssUnset,
     right |-> CssUnset, width |-> CssUnset, height |-> CssUnset,
     alignItems |-> CssUnset, justifyContent |-> CssUnset,
     maxHeight |-> CssUnset, maxWidth |-> CssUnset]

\* The wrapper after the first lines of apply().  On an initial render a new
\* div replaces _boundingBox: it is inserted before the pane in the pane's
\* parent (the overlay container, or the wrapper of an earlier initial
\* render that did not complete) and the pane moves into it.  The new
\* wrapper is in the document when that parent is; a replaced wrapper that
\* was in the document stays there as "earlier".
attachBoundingBox(initial) ==
    IF ~initial
    THEN [boundingBox |-> boundingBox, wrappersInDocument |-> wrappersInDocument]
    ELSE [boundingBox |-> "attached",
          wrappersInDocument |->
              IF boundingBox = "undefined" THEN {"current"}
              ELSE IF "current" \in wrappersInDocument THEN {"current", "earlier"}
              ELSE wrappersInDocument]

\* _resetBoundingBoxStyles: extendObject over the current style
resetBoundingBoxStyles(style) ==
    [style EXCEPT !.top = CssZero, !.left = CssZero, !.right = CssZero,
                  !.bottom = CssZero, !.height = CssUnset, !.width = CssUnset,
                  !.alignItems = CssUnset, !.justifyContent = CssUnset]

\* _setOverlayElementStyles: the new _pane.style; pushed is this._isPushed
setOverlayElementStyles(style, position, pushed) ==
    LET alignX == position.overlayX # "center" /\ ~pushed
        alignY == position.overlayY # "center" /\ ~pushed
        offsetX == position.offsetX
        offsetY == position.offsetY
    IN [style EXCEPT
          !.top = IF alignY /\ position.overlayY # "bottom" THEN CssZero ELSE CssUnset,
          !.bottom = IF alignY /\ position.overlayY = "bottom" THEN CssZero ELSE CssUnset,
          !.left = IF alignX /\ position.overlayX # "end" THEN CssZero ELSE CssUnset,
          !.right = IF alignX /\ position.overlayX = "end" THEN CssZero ELSE CssUnset,
          !.marginLeft = IF offsetX < 0 THEN -Abs(offsetX) ELSE @,
          !.marginRight = IF offsetX > 0 THEN -Abs(offsetX) ELSE @,
          !.marginTop = IF offsetY < 0 THEN -Abs(offsetY) ELSE @,
          !.marginBottom = IF offsetY > 0 THEN -Abs(offsetY) ELSE @,
          !.maxHeight = IF Truthy(overlayState.maxHeight) THEN CssUnset ELSE @,
          !.maxWidth = IF Truthy(overlayState.maxWidth) THEN CssUnset ELSE @]

\* The bounding-box styles of a rect for _setBoundingBoxStyles.
boundingBoxStyles(style, rect, origin, pushed) ==
    [style EXCEPT
       !.width = IF hasFlexibleWidth THEN Px(rect.width) ELSE Css100vw,
       !.height = IF hasFlexibleHeight THEN Px(rect.height) ELSE Css100vh,
       !.top = IF pushed THEN Px(origin.y) ELSE PxIfTruthy(rect.top),
       !.bottom = IF pushed THEN CssUnset ELSE PxIfTruthy(rect.bottom),
       !.left = IF pushed THEN Px(origin.x) ELSE PxIfTruthy(rect.left),
       !.right = IF pushed THEN CssUnset ELSE PxIfTruthy(rect.right),
       !.maxHeight = IF Truthy(overlayState.maxHeight)
                     THEN Px(Val(overlayState.maxHeight)) ELSE @,
       !.maxWidth = IF Truthy(overlayState.maxWidth)
                    THEN Px(Val(overlayState.maxWidth)) ELSE @,
       !.alignItems = IF pushed THEN CssNormal ELSE @,
       !.justifyContent = IF pushed THEN CssNormal ELSE @]

\* _setBoundingBoxStyles without the clamp to the last size.
setBoundingBoxStylesUnclamped(style, origin, position, viewport, pushed, initial) ==
    LET computed == calculateBoundingBoxRect(origin, position, viewport, initial)
    IN [rect |-> computed, style |-> boundingBoxStyles(style, computed, origin, pushed)]

\* _setBoundingBoxStyles that writes the clamped size but records the
\* computed one as the last size.
setBoundingBoxStylesRecordingComputed(style, origin, position, viewport, pushed, initial) ==
    LET computed == calculateBoundingBoxRect(origin, position, viewport, initial)
        clamp == ~initial /\ ~growAfterOpen
        rect == [computed EXCEPT
                   !.height = IF clamp THEN Min(@, lastBoundingBoxHeight) ELSE @,
                   !.width = IF clamp THEN Min(@, lastBoundingBoxWidth) ELSE @]
    IN [rect |-> computed, style |-> boundingBoxStyles(style, rect, origin, pushed)]

\* _setBoundingBoxStyles: the rect it records and the new _boundingBox.style;
\* pushed is this._isPushed, initial is this._isInitialRender
setBoundingBoxStyles(style, origin, position, viewport, pushed, initial) ==
    LET computed == calculateBoundingBoxRect(origin, position, viewport, initial)
        clamp == ~initial /\ ~growAfterOpen
        rect == [computed EXCEPT
                   !.height = IF clamp THEN Min(@, lastBoundingBoxHeight) ELSE @,
                   !.width = IF clamp THEN Min(@, lastBoundingBoxWidth) ELSE @]
    IN [rect |-> rect, style |-> boundingBoxStyles(style, rect, origin, pushed)]

----------------------------------------------------------------------------
(* Operations *)

\* One layout read or style write of a pass.
Measure(target) == [kind |-> "measure", target |-> target]
Write(target) == [kind |-> "write", target |-> target]

\* apply() up to the scan: _resetBoundingBoxStyles, then the three rects.
applyMeasureLog ==
    <<Write("boundingBox"), Measure("viewport"), Measure("origin"), Measure("overlay")>>

\* reapplyLastPosition() up to _applyPosition: the three rects.
reapplyMeasureLog == <<Measure("origin"), Measure("overlay"), Measure("viewport")>>

\* _applyPosition: _setOverlayElementStyles, _setBoundingBoxStyles, then
\* _getScrollVisibility reads the rect of every scrollable container.
applyPositionLog ==
    <<Write("pane"), Write("boundingBox")>>
        \o [i \in 1..Len(scrollables) |-> Measure("scrollable")]

Call(method, outcome) == [method |-> method, outcome |-> outcome]

\* An apply() that swallows the error of a pass without a winner.
applySwallowed(reset) ==
    /\ boundingBoxStyle' = reset
    /\ positionChange' = <<>>
    /\ lastCall' = Call("apply", "none")
    /\ passLog' = applyMeasureLog
    /\ UNCHANGED <<paneStyle, lastBoundingBoxRect, lastBoundingBoxHeight,
                   lastBoundingBoxWidth, lastPosition, isInitialRender>>

\* apply() leaving through the TypeError of `bestFit!.position` or
\* `fallback!.overlayPoint` / `fallback!.pos` on null or undefined: the reset
\* styles are written, nothing is applied or emitted.
applyThrown(reset) ==
    /\ boundingBoxStyle' = reset
    /\ positionChange' = <<>>
    /\ lastCall' = Call("apply", "TypeError")
    /\ passLog' = applyMeasureLog
    /\ UNCHANGED <<paneStyle, lastBoundingBoxRect, lastBoundingBoxHeight,
                   lastBoundingBoxWidth, lastPosition, isInitialRender>>

\* apply(): creates the wrapper on an initial render, measures, scans the
\* positions, applies the winner (_applyPosition: pane styles, bounding-box
\* styles, last position, event).  Before attach() the initial render throws
\* in _creatingBoundingBox on this._overlayRef.getState(), before any write.
Apply ==
    LET viewport == narrowViewportRect(viewportEl, viewportMargin)
        node == attachBoundingBox(isInitialRender)
        reset == resetBoundingBoxStyles(IF isInitialRender THEN createdBoundingBoxStyle
                                        ELSE boundingBoxStyle)
    IN \E d \in {applyDecision(preferredPositions, originEl, paneEl, viewport,
                                isInitialRender)} :
       IF overlayRef = 0
       THEN /\ positionChange' = <<>>
            /\ lastCall' = Call("apply", "TypeError")
            /\ passLog' = <<>>
            /\ UNCHANGED <<config, layout, fields, paneStyle, boundingBoxStyle,
                           binding, dom, stepper, directive>>
       ELSE
       /\ boundingBox' = node.boundingBox
       /\ wrappersInDocument' = node.wrappersInDocument
       /\ viewportRect' = Some(viewport)
       /\ originRect' = Some(originEl)
       /\ overlayRect' = Some(paneEl)
       /\ isPushed' = d.pushed
       /\ IF d.branch = "TypeError"
          THEN applyThrown(reset)
          ELSE LET position == preferredPositions[d.pos]
                   box == setBoundingBoxStyles(reset, d.origin, position, viewport,
                                               d.pushed, isInitialRender)
               IN /\ paneStyle' = setOverlayElementStyles(paneStyle, position, d.pushed)
                  /\ boundingBoxStyle' = box.style
                  /\ lastBoundingBoxRect' = Some(box.rect)
                  /\ lastBoundingBoxHeight' = box.rect.height
                  /\ lastBoundingBoxWidth' = box.rect.width
                  /\ lastPosition' = d.pos
                  /\ positionChange' =
                        <<[connectionPair |-> d.pos,
                           scrollableViewProperties |-> getScrollVisibility(originEl, paneEl)]>>
                  /\ isInitialRender' = FALSE
                  /\ lastCall' = Call("apply", d.branch)
                  /\ passLog' = applyMeasureLog \o applyPositionLog
       /\ UNCHANGED <<config, layout, binding, stepper, directive>>

\* A reapplyLastPosition() that runs the ranking of apply() again.
rankedAgain ==
    LET d == applyDecision(preferredPositions, originEl, paneEl,
                           narrowViewportRect(viewportEl, viewportMargin), isInitialRender)
    IN IF d.pos = 0 THEN lastPosition ELSE d.pos

\* The position reapplyLastPosition() hands to _applyPosition: this._lastPosition.
positionToReapply == lastPosition

\* reapplyLastPosition(): measures and applies _lastPosition again.  With no
\* last position recorded, _applyPosition receives undefined and
\* _setOverlayElementStyles throws on position.overlayX before any write.
\* Before attach() it throws on this._pane.getBoundingClientRect(), after the
\* origin was measured.
ReapplyLastPosition ==
    LET viewport == narrowViewportRect(viewportEl, viewportMargin)
    IN IF overlayRef = 0
       THEN /\ originRect' = Some(originEl)
            /\ positionChange' = <<>>
            /\ lastCall' = Call("reapplyLastPosition", "TypeError")
            /\ passLog' = <<Measure("origin")>>
            /\ UNCHANGED <<config, layout, isInitialRender, lastBoundingBoxHeight,
                           lastBoundingBoxWidth, lastBoundingBoxRect, isPushed,
                           lastPosition, overlayRect, viewportRect, paneStyle,
                           boundingBoxStyle, binding, dom, stepper, directive>>
       ELSE
       /\ originRect' = Some(originEl)
       /\ overlayRect' = Some(paneEl)
       /\ viewportRect' = Some(viewport)
       /\ IF lastPosition = 0
          THEN /\ positionChange' = <<>>
               /\ lastCall' = Call("reapplyLastPosition", "TypeError")
               /\ passLog' = reapplyMeasureLog
               /\ UNCHANGED <<paneStyle, boundingBoxStyle, lastBoundingBoxRect,
                              lastBoundingBoxHeight, lastBoundingBoxWidth,
                              lastPosition, isInitialRender>>
          ELSE LET position == preferredPositions[positionToReapply]
                   \* `this._lastPosition || this._preferredPositions[0]`
                   originPoint == getOriginPoint(originEl, preferredPositions[lastPosition])
                   box == setBoundingBoxStyles(boundingBoxStyle, originPoint, position,
                                               viewport, isPushed, isInitialRender)
               IN /\ paneStyle' = setOverlayElementStyles(paneStyle, position, isPushed)
                  /\ boundingBoxStyle' = box.style
                  /\ lastBoundingBoxRect' = Some(box.rect)
                  /\ lastBoundingBoxHeight' = box.rect.height
                  /\ lastBoundingBoxWidth' = box.rect.width
                  /\ lastPosition' = positionToReapply
                  /\ positionChange' =
                        <<[connectionPair |-> positionToReapply,
                           scrollableViewProperties |-> getScrollVisibility(originEl, paneEl)]>>
                  /\ isInitialRender' = FALSE
                  /\ lastCall' = Call("reapplyLastPosition", "applied")
                  /\ passLog' = reapplyMeasureLog \o applyPositionLog
       /\ UNCHANGED <<config, layout, isPushed, binding, dom, stepper, directive>>

\* An attach() that binds the given overlay whatever was attached before.
attachRebinding(ref) ==
    /\ overlayRef' = ref
    /\ pane' = ref
    /\ lastCall' = Call("attach", "attached")
    /\ positionChange' = <<>>
    /\ passLog' = <<>>
    /\ UNCHANGED <<config, layout, fields, paneStyle, boundingBoxStyle, dom,
                   stepper, directive>>

\* attach(overlayRef): throws when an overlay is already attached, otherwise
\* binds the overlay and its element.
Attach(ref) ==
    /\ IF overlayRef # 0
       THEN /\ lastCall' = Call("attach", "Error")
            /\ UNCHANGED binding
       ELSE /\ overlayRef' = ref
            /\ pane' = ref
            /\ lastCall' = Call("attach", "attached")
    /\ positionChange' = <<>>
    /\ passLog' = <<>>
    /\ UNCHANGED <<config, layout, fields, paneStyle, boundingBoxStyle, dom,
                   stepper, directive>>

\* A dispose() that calls removeChild on the parent node without testing for
\* the wrapper and its parent.
disposeUnguarded ==
    /\ IF boundingBox = "attached"
       THEN /\ boundingBox' = "detached"
            /\ wrappersInDocument' = wrappersInDocument \ {"current"}
            /\ lastCall' = Call("dispose", "returned")
       ELSE /\ lastCall' = Call("dispose", "TypeError")
            /\ UNCHANGED dom
    /\ positionChange' = <<>>
    /\ passLog' = <<>>
    /\ UNCHANGED <<config, layout, fields, paneStyle, boundingBoxStyle, binding,
                   stepper, directive>>

\* dispose(): removes the wrapper from its parent node, if it has one.
Dispose ==
    /\ IF boundingBox = "attached"
       THEN /\ boundingBox' = "detached"
            /\ wrappersInDocument' = wrappersInDocument \ {"current"}
       ELSE UNCHANGED dom
    /\ positionChange' = <<>>
    /\ lastCall' = Call("dispose", "returned")
    /\ passLog' = <<>>
    /\ UNCHANGED <<config, layout, fields, paneStyle, boundingBoxStyle, binding,
                   stepper, directive>>

\* withScrollableContainers(scrollables); the containers are modelled by the
\* rects their elements have when a pass reads them.
WithScrollableContainers(list) ==
    /\ scrollables' = list
    /\ positionChange' = <<>>
    /\ lastCall' = Call("withScrollableContainers", "returned")
    /\ passLog' = <<>>
    /\ UNCHANGED <<preferredPositions, viewportMargin, canPush, growAfterOpen,
                   hasFlexibleHeight, hasFlexibleWidth, overlayState, layout, fields,
                   paneStyle, boundingBoxStyle, binding, dom, stepper, directive>>

\* withPush(canPush)
WithPush(push) ==
    /\ canPush' = push
    /\ positionChange' = <<>>
    /\ lastCall' = Call("withPush", "returned")
    /\ passLog' = <<>>
    /\ UNCHANGED <<preferredPositions, viewportMargin, growAfterOpen, hasFlexibleHeight,
                   hasFlexibleWidth, scrollables, overlayState, layout, fields,
                   paneStyle, boundingBoxStyle, binding, dom, stepper, directive>>

----------------------------------------------------------------------------
(* CdkStep and CdkStepper *)

\* A CdkStep as constructed: interacted is false; editable, optional and the
\* completed input (None while it was never set) are inputs; control is the
\* status of stepControl, "none" when the step has no control.
Step(editable, optional, customCompleted, control) ==
    [editable |-> editable, optional |-> optional, interacted |-> FALSE,
     customCompleted |-> customCompleted, control |-> control]

\* The statuses an AbstractControl reports (valid, invalid, pending).
ControlStatuses == {"VALID", "INVALID", "PENDING"}

\* CdkStep._defaultCompleted
defaultCompleted(step) ==
    IF step.control # "none" THEN step.control = "VALID" /\ step.interacted
    ELSE step.interacted

\* CdkStep.completed
completed(step) ==
    IF step.customCompleted = None THEN defaultCompleted(step)
    ELSE Val(step.customCompleted)

\* CdkStep.reset(); status is what the control reports once it has been reset.
stepReset(step, status) ==
    [step EXCEPT !.interacted = FALSE,
                 !.customCompleted = IF @ = None THEN None ELSE Some(FALSE),
                 !.control = IF @ = "none" THEN "none" ELSE status]

\* An event whose two indexes are exchanged.
SelectionEventExchanged(newIndex, previousIndex) ==
    [selectedIndex |-> previousIndex, previouslySelectedIndex |-> newIndex]

\* A StepperSelectionEvent (the step instances follow from the indexes).
SelectionEvent(newIndex, previousIndex) ==
    [selectedIndex |-> newIndex, previouslySelectedIndex |-> previousIndex]

\* The last stepper call and how it ended.  Every call that ends in the
\* selectedIndex setter (the assignment itself, next(), previous(), select(),
\* ENTER and SPACE) is recorded as "selectedIndex" with the index it handed
\* to the setter.
StepperCall(method, index, outcome) ==
    [method |-> method, index |-> index, outcome |-> outcome]

\* A bounds test that only rejects negative indexes.
outOfBoundsBelowOnly(index, length) == index < 0

\* The bounds test of the selectedIndex setter.
outOfBounds(index, length) == index < 0 \/ index > length - 1

\* The first statement of _anyControlsInvalidOrPending: the selected step has
\* been interacted with.
markInteracted(list, selected) == [list EXCEPT ![selected + 1].interacted = TRUE]

\* A linear check that lets every selection through.
anyControlsInvalidOrPendingNever(list, isLinear, index) == FALSE

\* What _anyControlsInvalidOrPending(index) returns, over the steps as they
\* are after markInteracted.
anyControlsInvalidOrPending(list, isLinear, index) ==
    /\ isLinear
    /\ index >= 0
    /\ \E k \in 1..index :
          LET step == list[k]
              isIncomplete == IF step.control # "none"
                              THEN step.control \in {"INVALID", "PENDING"}
                              ELSE ~completed(step)
          IN isIncomplete /\ ~step.optional

\* A setter that lets the selection move back onto any step.
backOntoNonEditableNever(list, index, selected) == FALSE

\* The second disjunct of the setter's refusal: the index lies before the
\* selected one and its step is not editable.
backOntoNonEditable(list, index, selected) ==
    index < selected /\ ~list[index + 1].editable

\* The selectedIndex setter: the state it leaves and how it ended.
setSelectedIndex(index) ==
    LET kept(list, outcome) ==
            [steps |-> list, selectedIndex |-> selectedIndex, focusIndex |-> focusIndex,
             selectionChange |-> <<>>, outcome |-> outcome]
    IN IF ~stepsPresent
       THEN [kept(steps, "assigned") EXCEPT !.selectedIndex = index, !.focusIndex = index]
       ELSE IF outOfBounds(index, Len(steps))
       THEN kept(steps, "Error")
       ELSE IF selectedIndex \notin 0..(Len(steps) - 1)
       THEN \* steps[this._selectedIndex] is undefined
            kept(steps, "TypeError")
       ELSE LET marked == markInteracted(steps, selectedIndex)
            IN IF \/ anyControlsInvalidOrPending(marked, linear, index)
                  \/ backOntoNonEditable(marked, index, selectedIndex)
               THEN \* blur() on the header; without _stepHeader the read throws
                    kept(marked, IF stepHeaderPresent THEN "blurred" ELSE "TypeError")
               ELSE IF selectedIndex # index
               THEN [steps |-> marked, selectedIndex |-> index, focusIndex |-> index,
                     selectionChange |-> <<SelectionEvent(index, selectedIndex)>>,
                     outcome |-> "selected"]
               ELSE kept(marked, "returned")

\* The state a call leaves that ends where the setter ends.
stepperReturns(method, index, r) ==
    /\ steps' = r.steps
    /\ selectedIndex' = r.selectedIndex
    /\ focusIndex' = r.focusIndex
    /\ selectionChange' = r.selectionChange
    /\ stepperCall' = StepperCall(method, index, r.outcome)
    /\ UNCHANGED <<stepsPresent, stepHeaderPresent, linear, strategy, keyboard, directive>>

\* A call that throws before it has changed anything.
stepperThrows(method, index, outcome) ==
    /\ selectionChange' = <<>>
    /\ stepperCall' = StepperCall(method, index, outcome)
    /\ UNCHANGED <<steps, stepsPresent, stepHeaderPresent, linear, selectedIndex,
                   focusIndex, strategy, keyboard, directive>>

\* The content query resolves: _steps is set.
ResolveSteps ==
    /\ ~stepsPresent
    /\ stepsPresent' = TRUE
    /\ selectionChange' = <<>>
    /\ stepperCall' = StepperCall("resolveSteps", 0, "returned")
    /\ UNCHANGED <<steps, stepHeaderPresent, linear, selectedIndex, focusIndex, strategy, keyboard, directive>>

\* stepper.selectedIndex = index
SetSelectedIndex(index) ==
    \E r \in {setSelectedIndex(index)} : stepperReturns("selectedIndex", index, r)

\* next()
StepperNext ==
    IF ~stepsPresent
    THEN stepperThrows("next", selectedIndex + 1, "TypeError")
    ELSE \E index \in {Min(selectedIndex + 1, Len(steps) - 1)} :
         \E r \in {setSelectedIndex(index)} : stepperReturns("selectedIndex", index, r)

\* previous()
StepperPrevious ==
    \E index \in {Max(selectedIndex - 1, 0)} :
    \E r \in {setSelectedIndex(index)} : stepperReturns("selectedIndex", index, r)

\* steps[index].select(): the selected setter hands indexOf(step) on.
StepSelect(index) ==
    IF ~stepsPresent
    THEN stepperThrows("select", index, "TypeError")
    ELSE \E r \in {setSelectedIndex(index)} : stepperReturns("selectedIndex", index, r)

\* What the controls of the steps may report once they have been reset.
resetStatuses(list) ==
    {f \in [1..Len(list) -> ControlStatuses \cup {"none"}] :
        \A k \in 1..Len(list) : (f[k] = "none") = (list[k].control = "none")}

\* reset(): the setter with index 0, then reset() on every step, unless the
\* setter threw; statuses[k] is what the control of step k reports once reset.
StepperReset ==
    \E r \in {setSelectedIndex(0)} :
       IF ~stepsPresent
       THEN stepperReturns("reset", 0, [r EXCEPT !.outcome = "TypeError"])
       ELSE IF r.outcome \in {"Error", "TypeError"}
       THEN stepperReturns("reset", 0, r)
       ELSE \E statuses \in resetStatuses(steps) :
               stepperReturns("reset", 0,
                   [r EXCEPT !.steps = [k \in 1..Len(steps) |->
                                           stepReset(r.steps[k], statuses[k])],
                             !.outcome = "returned"])

\* The % of the code: the remainder takes the sign of the dividend.
remainder(a, n) == IF a >= 0 THEN a % n ELSE -((-a) % n)

\* _layoutDirection()
layoutDirection == IF dir = "rtl" THEN "rtl" ELSE "ltr"

\* The index _focusNextStep() hands to _focusStep.
focusNextStepIndex(index, length) == remainder(index + 1, length)

\* The index _focusPreviousStep() hands to _focusStep.
focusPreviousStepIndex(index, length) == remainder(index + length - 1, length)

\* The keys _onKeydown tests for.
Keys == {"RIGHT_ARROW", "LEFT_ARROW", "UP_ARROW", "DOWN_ARROW", "ENTER", "SPACE",
         "HOME", "END"}

\* The index the key hands to _focusStep; None for a key that moves no focus
\* (the up and down arrows of a horizontal stepper).
focusTarget(key) ==
    LET next == Some(focusNextStepIndex(focusIndex, Len(steps)))
        previous == Some(focusPreviousStepIndex(focusIndex, Len(steps)))
    IN CASE key = "RIGHT_ARROW" -> IF layoutDirection = "rtl" THEN previous ELSE next
         [] key = "LEFT_ARROW" -> IF layoutDirection = "rtl" THEN next ELSE previous
         [] key = "UP_ARROW" -> IF orientation = "vertical" THEN previous ELSE None
         [] key = "DOWN_ARROW" -> IF orientation = "vertical" THEN next ELSE None
         [] key = "HOME" -> Some(0)
         [] key = "END" -> Some(Len(steps) - 1)

\* _onKeydown(event) on a step header.  ENTER and SPACE hand the focus index
\* to the setter; the other keys call _focusStep, which stores the index and
\* then throws when there is no header at that index.
OnKeydown(key) ==
    /\ stepsPresent
    /\ stepHeaderPresent
    /\ IF key \in {"ENTER", "SPACE"}
       THEN \E r \in {setSelectedIndex(focusIndex)} : stepperReturns("selectedIndex", focusIndex, r)
       ELSE \E target \in {focusTarget(key)} :
            /\ focusIndex' = IF IsSome(target) THEN Val(target) ELSE focusIndex
            /\ selectionChange' = <<>>
            /\ stepperCall' = StepperCall(key, 0,
                                 IF target = None \/ focusIndex' \in 0..(Len(steps) - 1)
                                 THEN "returned" ELSE "TypeError")
            /\ UNCHANGED <<steps, stepsPresent, stepHeaderPresent, linear, selectedIndex,
                           strategy, keyboard, directive>>

\* The control of step index (0-based) reports another status.
StatusChanges(index, status) ==
    /\ index + 1 \in 1..Len(steps)
    /\ steps[index + 1].control \notin {"none", status}
    /\ steps' = [steps EXCEPT ![index + 1].control = status]
    /\ selectionChange' = <<>>
    /\ stepperCall' = StepperCall("statusChanges", 0, "returned")
    /\ UNCHANGED <<stepsPresent, stepHeaderPresent, linear, selectedIndex, focusIndex,
                   strategy, keyboard, directive>>

\* No stepper: the state of the stepper variables where only the strategy runs.
NoStepper ==
    /\ steps = <<>>
    /\ stepsPresent = FALSE
    /\ stepHeaderPresent = FALSE
    /\ linear = FALSE
    /\ selectedIndex = 0
    /\ focusIndex = 0
    /\ selectionChange = <<>>
    /\ stepperCall = StepperCall("none", 0, "none")
    /\ dir = "none"
    /\ orientation = "horizontal"

----------------------------------------------------------------------------
(* CdkConnectedOverlay *)

\* A ConnectionPositionPair built from an origin and an overlay position.
ConnectionPositionPair(originX, originY, overlayX, overlayY) ==
    [originX |-> originX, originY |-> originY, overlayX |-> overlayX, overlayY |-> overlayY]

\* defaultPositionList
defaultPositionList ==
    <<ConnectionPositionPair("start", "bottom", "start", "top"),
      ConnectionPositionPair("start", "top", "start", "bottom"),
      ConnectionPositionPair("end", "top", "end", "bottom"),
      ConnectionPositionPair("end", "bottom", "end", "top")>>

\* The positions field after _createOverlay's first statement: the default
\* list when the field is undefined or empty.
positionsOrDefault(field) ==
    IF field = None \/ Len(Val(field)) = 0 THEN defaultPositionList ELSE Val(field)

\* _createPositionStrategy(): connectedTo() with the first position, then
\* withFallbackPosition() for every further one; the candidates of the
\* strategy it returns, in rank order.
createPositionStrategy(list) ==
    [i \in 1..Len(list) |->
        ConnectionPositionPair(list[i].originX, list[i].originY,
                               list[i].overlayX, list[i].overlayY)]

\* _attachOverlay(): the state it leaves.
attachOverlay(d) ==
    LET created ==
            IF d.directiveOverlayRef = 0
            THEN [d EXCEPT !.positionsInput = Some(positionsOrDefault(d.positionsInput)),
                           !.strategyPositions =
                               Some(createPositionStrategy(positionsOrDefault(d.positionsInput))),
                           !.strategyLocked = d.lockPosition,
                           !.strategiesCreated = @ + 1,
                           !.overlaysCreated = @ + 1,
                           !.directiveOverlayRef = d.overlaysCreated + 1]
            ELSE d
        attached ==
            IF ~created.hasAttached
            THEN [created EXCEPT !.hasAttached = TRUE, !.emitted = <<"attach">>]
            ELSE created
    IN IF attached.hasBackdrop
       THEN [attached EXCEPT !.backdropSubscribed = TRUE]
       ELSE attached

\* _detachOverlay(): the state it leaves.
detachOverlay(d) ==
    IF d.directiveOverlayRef # 0
    THEN [d EXCEPT !.hasAttached = FALSE, !.emitted = <<"detach">>,
                   !.backdropSubscribed = FALSE]
    ELSE [d EXCEPT !.backdropSubscribed = FALSE]

\* The directive's fields as a record, with nothing emitted yet.
directiveFields ==
    [openInput |-> openInput, positionsInput |-> positionsInput,
     directiveOverlayRef |-> directiveOverlayRef, hasAttached |-> hasAttached,
     strategyPositions |-> strategyPositions, overlaysCreated |-> overlaysCreated,
     strategiesCreated |-> strategiesCreated, emitted |-> <<>>,
     hasBackdrop |-> hasBackdrop, lockPosition |-> lockPosition,
     backdropSubscribed |-> backdropSubscribed, strategyLocked |-> strategyLocked]

\* The state a handler of the directive leaves.
directiveReturns(d) ==
    /\ openInput' = d.openInput
    /\ positionsInput' = d.positionsInput
    /\ directiveOverlayRef' = d.directiveOverlayRef
    /\ hasAttached' = d.hasAttached
    /\ strategyPositions' = d.strategyPositions
    /\ overlaysCreated' = d.overlaysCreated
    /\ strategiesCreated' = d.strategiesCreated
    /\ emitted' = d.emitted
    /\ hasBackdrop' = d.hasBackdrop
    /\ lockPosition' = d.lockPosition
    /\ backdropSubscribed' = d.backdropSubscribed
    /\ strategyLocked' = d.strategyLocked
    /\ lastEvent' = IF d.emitted = <<>> THEN lastEvent ELSE d.emitted[Len(d.emitted)]
    /\ UNCHANGED <<strategy, stepper>>

\* ngOnChanges after the inputs were set: changes holds an entry for every
\* input whose value differs from the one held.  An existing strategy
\* receives the new positions field and the new lockPosition as they are; a
\* change of open then attaches or detaches.
OnChanges(newOpen, newPositions, newHasBackdrop, newLockPosition) ==
    /\ \/ newOpen # openInput
       \/ newPositions # positionsInput
       \/ newHasBackdrop # hasBackdrop
       \/ newLockPosition # lockPosition
    /\ \E set \in {[directiveFields EXCEPT !.openInput = newOpen,
                                           !.positionsInput = newPositions,
                                           !.hasBackdrop = newHasBackdrop,
                                           !.lockPosition = newLockPosition]} :
       \E repositioned \in
             {IF set.strategyPositions # None
              THEN [set EXCEPT !.strategyPositions =
                                   IF newPositions = positionsInput THEN @
                                   ELSE IF newPositions = None THEN Some(<<>>)
                                   ELSE newPositions,
                               !.strategyLocked = newLockPosition]
              ELSE set} :
          directiveReturns(IF newOpen = openInput THEN repositioned
                           ELSE IF newOpen THEN attachOverlay(repositioned)
                           ELSE detachOverlay(repositioned))

\* The overlay's keydown stream delivers ESCAPE; the stream exists once the
\* overlay was created and carries events while the overlay is attached.
Escape ==
    /\ directiveOverlayRef # 0
    /\ hasAttached
    /\ directiveReturns(detachOverlay(directiveFields))

\* No directive: the state of the directive's variables where it does not run.
NoDirective ==
    /\ openInput = FALSE
    /\ positionsInput = None
    /\ directiveOverlayRef = 0
    /\ hasAttached = FALSE
    /\ strategyPositions = None
    /\ overlaysCreated = 0
    /\ strategiesCreated = 0
    /\ emitted = <<>>
    /\ lastEvent = "none"
    /\ hasBackdrop = FALSE
    /\ lockPosition = FALSE
    /\ backdropSubscribed = FALSE
    /\ strategyLocked = FALSE

----------------------------------------------------------------------------
(* Bounds and input domains *)

\* Longest list of preferred positions.
MaxPositions == 2
\* Largest viewport margin, in grid steps of 4.
MaxMargin == 1

\* The candidate pool: below, above and centred on the origin, end-aligned
\* below with a weight, and the two diagonal placements.
PositionPool ==
    {Position("start", "bottom", "start", "top", None, 0, 0),
     Position("start", "top", "start", "bottom", None, 0, 0),
     Position("center", "center", "center", "center", None, 0, 0),
     Position("end", "bottom", "end", "top", Some(2), 0, 0),
     Position("start", "top", "end", "bottom", None, 0, 0),
     Position("end", "bottom", "start", "top", None, 0, 0)}

\* The ranked lists: 1 to MaxPositions distinct candidates of the pool.
PositionLists ==
    UNION {{l \in [1..n -> PositionPool] : \A i, j \in 1..n : l[i] = l[j] => i = j}
           : n \in 1..MaxPositions}

Margins == {4 * k : k \in 0..MaxMargin}

\* The origin is 4 x 4: at -4 it ends on the viewport's near edge, at 4 it
\* lies inside (against the far edge of the smaller viewport), at 12 it lies
\* past the far edge of the smaller viewport.
Origins == {Rect(t, l, 4, 4) : t \in {-4, 4, 12}, l \in {-4, 4}}
\* An origin wholly above and left of the viewport, a step away from its top.
OriginOffScreen == Rect(-8, -4, 4, 4)
\* The pane: smaller than the viewports, and larger than one on either axis.
Panes == {Rect(0, 0, 4, 4), Rect(0, 0, 12, 4), Rect(0, 0, 4, 12)}
\* The viewport rect in document coordinates: a large one at the document's
\* start and a small one scrolled sideways.
Viewports == {Rect(0, 0, 16, 16), Rect(0, 4, 8, 8)}

\* The layout of the worked placement: a 40x20 origin at (50, 100), a 200x30
\* pane, a 400x300 viewport at (0, 0).
ExampleOrigin == Rect(100, 50, 40, 20)
ExamplePane == Rect(0, 0, 200, 30)
ExampleViewport == Rect(0, 0, 400, 300)

\* The attached overlay's state: either direction, no minimum height or one
\* of 8, no other size limit.
OverlayStates ==
    [direction : {"ltr", "rtl"}, minHeight : {None, Some(8)}, minWidth : {None},
     maxHeight : {None}, maxWidth : {None}]
\* The states without a minimum size.
PlainStates == {s \in OverlayStates : s.minHeight = None}

\* The strategy's fields and outputs after construction and attach(), before
\* any pass.
InitStrategy ==
    /\ isInitialRender = TRUE
    /\ lastBoundingBoxHeight = 0
    /\ lastBoundingBoxWidth = 0
    /\ lastBoundingBoxRect = None
    /\ isPushed = FALSE
    /\ lastPosition = 0
    /\ originRect = None
    /\ overlayRect = None
    /\ viewportRect = None
    /\ paneStyle = [top |-> CssUnset, left |-> CssUnset, bottom |-> CssUnset,
                    right |-> CssUnset, marginLeft |-> 0, marginRight |-> 0,
                    marginTop |-> 0, marginBottom |-> 0,
                    maxHeight |-> CssUnset, maxWidth |-> CssUnset]
    /\ boundingBoxStyle = [top |-> CssUnset, left |-> CssUnset, bottom |-> CssUnset,
                           right |-> CssUnset, width |-> CssUnset, height |-> CssUnset,
                           alignItems |-> CssUnset, justifyContent |-> CssUnset,
                           maxHeight |-> CssUnset, maxWidth |-> CssUnset]
    /\ positionChange = <<>>
    /\ lastCall = Call("none", "none")
    /\ boundingBox = "undefined"
    /\ wrappersInDocument = {}
    /\ passLog = <<>>

\* attach() has bound the strategy to the overlay with id 1.
Attached ==
    /\ overlayRef = 1
    /\ pane = 1

\* Repositioning over a changing layout: the default configuration with
\* pushing and grow-after-open either way, flexible sizing on or off, one
\* pane and one viewport, the origin anywhere.
Init ==
    /\ preferredPositions \in PositionLists
    /\ viewportMargin = 0
    /\ canPush \in BOOLEAN
    /\ growAfterOpen \in BOOLEAN
    /\ hasFlexibleHeight \in BOOLEAN
    /\ hasFlexibleWidth = hasFlexibleHeight
    /\ scrollables = <<>>
    /\ overlayState \in {s \in PlainStates : s.direction = "ltr"}
    /\ originEl \in Origins
    /\ paneEl = Rect(0, 0, 4, 4)
    /\ viewportEl = Rect(0, 0, 8, 8)
    /\ InitStrategy
    /\ NoStepper
    /\ NoDirective
    /\ Attached

\* One layout that stays as it is, configured one of five ways: a margin
\* and a direction with rigid sizing; flexible sizing on either axis, with or
\* without pushing, in either viewport; pushing panes of every size, some
\* larger than the viewport, with a margin, also from an off-screen origin; flexible sizing with a minimum
\* height, for a small and a tall pane; the worked placement, with pushing.
InitStatic ==
    /\ preferredPositions \in PositionLists
    /\ growAfterOpen = FALSE
    /\ scrollables = <<>>
    /\ \/ /\ viewportMargin \in Margins
          /\ originEl \in Origins
          /\ overlayState \in PlainStates
          /\ canPush = FALSE
          /\ hasFlexibleHeight = FALSE /\ hasFlexibleWidth = FALSE
          /\ paneEl = Rect(0, 0, 4, 4)
          /\ viewportEl = Rect(0, 0, 16, 16)
       \/ /\ viewportMargin = 0
          /\ originEl \in Origins
          /\ overlayState \in {s \in PlainStates : s.direction = "ltr"}
          /\ canPush \in BOOLEAN
          /\ hasFlexibleHeight \in BOOLEAN /\ hasFlexibleWidth \in BOOLEAN
          /\ paneEl = Rect(0, 0, 4, 4)
          /\ viewportEl \in Viewports
       \/ /\ viewportMargin \in Margins
          /\ originEl \in Origins \cup {OriginOffScreen}
          /\ overlayState \in {s \in PlainStates : s.direction = "ltr"}
          /\ canPush = TRUE
          /\ hasFlexibleHeight = FALSE /\ hasFlexibleWidth = FALSE
          /\ paneEl \in Panes
          /\ viewportEl \in Viewports
       \/ /\ viewportMargin = 0
          /\ originEl \in Origins
          /\ overlayState \in {s \in OverlayStates \ PlainStates : s.direction = "ltr"}
          /\ canPush = FALSE
          /\ hasFlexibleHeight = TRUE /\ hasFlexibleWidth = TRUE
          /\ paneEl \in {Rect(0, 0, 4, 4), Rect(0, 0, 4, 12)}
          /\ viewportEl = Rect(0, 0, 16, 16)
       \/ /\ viewportMargin = 0
          /\ originEl = ExampleOrigin
          /\ overlayState \in {s \in PlainStates : s.direction = "ltr"}
          /\ canPush = TRUE
          /\ hasFlexibleHeight = FALSE /\ hasFlexibleWidth = FALSE
          /\ paneEl = ExamplePane
          /\ viewportEl = ExampleViewport
    /\ InitStrategy
    /\ NoStepper
    /\ NoDirective
    /\ Attached

\* A scroll moves the origin up or down relative to the viewport.
Scroll ==
    /\ originEl' \in {o \in Origins : o.left = originEl.left} \ {originEl}
    /\ UNCHANGED <<config, paneEl, viewportEl, fields, output, lastCall, binding, dom,
                   passLog, stepper, directive>>

Next == Apply \/ ReapplyLastPosition \/ Scroll

Spec == Init /\ [][Next]_vars

\* The passes alone, over a layout that stays as it is.
NextStatic == Apply \/ ReapplyLastPosition

SpecStatic == InitStatic /\ [][NextStatic]_vars

\* The overlays attach() is called with.
OverlayRefs == {1, 2}

\* The lists of the life-cycle runs: no position, or one of the pool.
LifecycleLists == {<<>>} \cup {l \in PositionLists : Len(l) = 1}

\* A strategy as constructed, before attach(): rigid or flexible sizing,
\* pushing on or off, a small pane or one wider than the viewport.
InitLifecycle ==
    /\ preferredPositions \in LifecycleLists
    /\ viewportMargin = 0
    /\ canPush \in BOOLEAN
    /\ growAfterOpen = FALSE
    /\ hasFlexibleHeight \in BOOLEAN
    /\ hasFlexibleWidth = hasFlexibleHeight
    /\ scrollables = <<>>
    /\ overlayState \in {s \in PlainStates : s.direction = "ltr"}
    /\ originEl \in Origins
    /\ paneEl \in {Rect(0, 0, 4, 4), Rect(0, 0, 12, 4)}
    /\ viewportEl = Rect(0, 4, 8, 8)
    /\ InitStrategy
    /\ NoStepper
    /\ NoDirective
    /\ overlayRef = 0
    /\ pane = 0

\* The life cycle: attach, passes, withPush between passes, dispose.
NextLifecycle ==
    \/ \E ref \in OverlayRefs : Attach(ref)
    \/ Apply
    \/ ReapplyLastPosition
    \/ \E push \in BOOLEAN : WithPush(push)
    \/ Dispose

SpecLifecycle == InitLifecycle /\ [][NextLifecycle]_vars

\* A start/end label exchanged for the other one; center stays.
swapStartEnd(label) ==
    IF label = "start" THEN "end" ELSE IF label = "end" THEN "start" ELSE label

\* The list with every start/end label of originX and overlayX exchanged.
mirrorPositions(positions) ==
    [i \in 1..Len(positions) |->
        [positions[i] EXCEPT !.originX = swapStartEnd(positions[i].originX),
                             !.overlayX = swapStartEnd(positions[i].overlayX)]]

\* Between two passes the overlay's state is turned to the other direction
\* (read anew by every _isRtl()) and withPositions() hands over the list with
\* start and end exchanged.  Taken once a pass has placed the overlay.
MirrorDirection ==
    /\ lastCall.method = "apply"
    /\ lastCall.outcome # "TypeError"
    /\ overlayState' = [overlayState EXCEPT !.direction = IF isRtl THEN "ltr" ELSE "rtl"]
    /\ preferredPositions' = mirrorPositions(preferredPositions)
    /\ positionChange' = <<>>
    /\ lastCall' = Call("withPositions", "returned")
    /\ passLog' = <<>>
    /\ UNCHANGED <<viewportMargin, canPush, growAfterOpen, hasFlexibleHeight,
                   hasFlexibleWidth, scrollables, layout, fields,
                   paneStyle, boundingBoxStyle, binding, dom, stepper, directive>>

\* One layout placed in both directions: an ltr overlay allowed to grow after
\* opening and never pushed, so that every pass places the 4x4 pane as a
\* first pass would, with rigid or flexible sizing.
InitMirror ==
    /\ preferredPositions \in PositionLists
    /\ viewportMargin = 0
    /\ canPush = FALSE
    /\ growAfterOpen = TRUE
    /\ hasFlexibleHeight \in BOOLEAN
    /\ hasFlexibleWidth = hasFlexibleHeight
    /\ scrollables = <<>>
    /\ overlayState \in {s \in PlainStates : s.direction = "ltr"}
    /\ originEl \in Origins
    /\ paneEl = Rect(0, 0, 4, 4)
    /\ viewportEl = Rect(0, 0, 16, 16)
    /\ InitStrategy
    /\ NoStepper
    /\ NoDirective
    /\ Attached

NextMirror == Apply \/ MirrorDirection

SpecMirror == InitMirror /\ [][NextMirror]_vars

\* The offsets a position is given on either axis.
Offsets == {-4, 0, 4}

\* The placement below the origin, start-aligned, with every pair of offsets.
OffsetPool ==
    {Position("start", "bottom", "start", "top", None, dx, dy) :
        dx \in Offsets, dy \in Offsets}

\* The ranked lists of placements with offsets.
OffsetLists ==
    UNION {{l \in [1..n -> OffsetPool] : \A i, j \in 1..n : l[i] = l[j] => i = j}
           : n \in 1..MaxPositions}

\* One layout placed with offset positions: rigid sizing, with or without
\* pushing, the origin anywhere.
InitOffsets ==
    /\ preferredPositions \in OffsetLists
    /\ viewportMargin = 0
    /\ canPush \in BOOLEAN
    /\ growAfterOpen = FALSE
    /\ hasFlexibleHeight = FALSE
    /\ hasFlexibleWidth = FALSE
    /\ scrollables = <<>>
    /\ overlayState \in {s \in PlainStates : s.direction = "ltr"}
    /\ originEl \in Origins
    /\ paneEl = Rect(0, 0, 4, 4)
    /\ viewportEl = Rect(0, 0, 16, 16)
    /\ InitStrategy
    /\ NoStepper
    /\ NoDirective
    /\ Attached

NextOffsets == Apply \/ ReapplyLastPosition

SpecOffsets == InitOffsets /\ [][NextOffsets]_vars

\* The rects of the scrollable containers: one that holds the whole viewport,
\* its lower half, its upper left quarter, and a strip left of it.
Containers ==
    {Rect(0, 0, 16, 16), Rect(8, 0, 16, 8), Rect(0, 0, 8, 8), Rect(0, -8, 4, 16)}

\* The lists withScrollableContainers() is given: none, one or two containers.
ContainerLists ==
    {<<>>} \cup {<<c>> : c \in Containers} \cup {<<c, d>> : c \in Containers, d \in Containers}

\* One layout placed with one or two positions inside changing scrollable
\* containers: rigid sizing, pushing on, growing after open either way.
InitScrollables ==
    /\ preferredPositions \in {l \in PositionLists : Len(l) <= 2}
    /\ viewportMargin = 0
    /\ canPush = TRUE
    /\ growAfterOpen \in BOOLEAN
    /\ hasFlexibleHeight = FALSE
    /\ hasFlexibleWidth = FALSE
    /\ scrollables \in ContainerLists
    /\ overlayState \in {s \in PlainStates : s.direction = "ltr"}
    /\ originEl \in Origins
    /\ paneEl = Rect(0, 0, 4, 4)
    /\ viewportEl = Rect(0, 0, 16, 16)
    /\ InitStrategy
    /\ NoStepper
    /\ NoDirective
    /\ Attached

NextScrollables ==
    \/ Apply
    \/ \E list \in ContainerLists : WithScrollableContainers(list)

SpecScrollables == InitScrollables /\ [][NextScrollables]_vars

\* The weights a position is given: unset, 0 and 2.
Weights == {None, Some(0), Some(2)}

\* Below the origin, above it and end-aligned below it, with every weight.
WeightPool ==
    UNION {{Position("start", "bottom", "start", "top", w, 0, 0),
            Position("start", "top", "start", "bottom", w, 0, 0),
            Position("end", "bottom", "end", "top", w, 0, 0)} : w \in Weights}

\* The ranked lists of weighted placements.
WeightLists ==
    UNION {{l \in [1..n -> WeightPool] : \A i, j \in 1..n : l[i] = l[j] => i = j}
           : n \in 1..MaxPositions}

\* One layout placed with weighted positions and flexible sizing, without
\* pushing: a pane too tall or too tall and too wide to fit beside the origin.
InitWeights ==
    /\ preferredPositions \in WeightLists
    /\ viewportMargin = 0
    /\ canPush = FALSE
    /\ growAfterOpen = FALSE
    /\ hasFlexibleHeight = TRUE
    /\ hasFlexibleWidth = TRUE
    /\ scrollables = <<>>
    /\ overlayState \in {s \in PlainStates : s.direction = "ltr"}
    /\ originEl \in Origins
    /\ paneEl \in {Rect(0, 0, 4, 12), Rect(0, 0, 12, 12)}
    /\ viewportEl = Rect(0, 0, 16, 16)
    /\ InitStrategy
    /\ NoStepper
    /\ NoDirective
    /\ Attached

NextWeights == Apply \/ ReapplyLastPosition

SpecWeights == InitWeights /\ [][NextWeights]_vars

\* Longest list of steps.
MaxSteps == 2

\* The kinds of step a stepper is declared with: plain, not editable,
\* optional with the completed input set to false, with a form control.
StepKinds ==
    {Step(TRUE, FALSE, None, "none"), Step(FALSE, FALSE, None, "none"),
     Step(TRUE, TRUE, Some(FALSE), "none"), Step(TRUE, FALSE, None, "INVALID")}

StepLists == UNION {[1..n -> StepKinds] : n \in 1..MaxSteps}

\* The indexes handed to the stepper, out-of-bounds ones included.
Indexes == -1..MaxSteps

\* The stepper as constructed, before its content query has resolved; the
\* strategy of the module's first part stays as constructed.
InitStepper ==
    /\ preferredPositions = <<>>
    /\ viewportMargin = 0
    /\ canPush = TRUE
    /\ growAfterOpen = FALSE
    /\ hasFlexibleHeight = FALSE
    /\ hasFlexibleWidth = FALSE
    /\ scrollables = <<>>
    /\ overlayState \in {s \in PlainStates : s.direction = "ltr"}
    /\ originEl = Rect(4, 4, 4, 4)
    /\ paneEl = Rect(0, 0, 4, 4)
    /\ viewportEl = Rect(0, 0, 16, 16)
    /\ overlayRef = 0
    /\ pane = 0
    /\ InitStrategy
    /\ steps \in StepLists
    /\ stepsPresent = FALSE
    /\ stepHeaderPresent \in BOOLEAN
    /\ linear \in BOOLEAN
    /\ selectedIndex = 0
    /\ focusIndex = 0
    /\ selectionChange = <<>>
    /\ stepperCall = StepperCall("none", 0, "none")
    /\ dir = "none"
    /\ orientation = "horizontal"
    /\ NoDirective

NextStepper ==
    \/ ResolveSteps
    \/ \E index \in Indexes : SetSelectedIndex(index)
    \/ StepperNext
    \/ StepperPrevious
    \/ \E index \in 0..(Len(steps) - 1) : StepSelect(index)
    \/ StepperReset
    \/ \E key \in {"HOME", "END", "ENTER"} : OnKeydown(key)
    \/ \E index \in 0..(Len(steps) - 1), status \in ControlStatuses :
          StatusChanges(index, status)

SpecStepper == InitStepper /\ [][NextStepper]_vars

\* The indexes bound to selectedIndex in the keyboard scenarios.
KeyboardIndexes == -2..MaxSteps

\* Steppers with headers in either orientation and any layout direction,
\* whose steps are plain or not editable.
InitKeyboard ==
    /\ preferredPositions = <<>>
    /\ viewportMargin = 0
    /\ canPush = TRUE
    /\ growAfterOpen = FALSE
    /\ hasFlexibleHeight = FALSE
    /\ hasFlexibleWidth = FALSE
    /\ scrollables = <<>>
    /\ overlayState \in {s \in PlainStates : s.direction = "ltr"}
    /\ originEl = Rect(4, 4, 4, 4)
    /\ paneEl = Rect(0, 0, 4, 4)
    /\ viewportEl = Rect(0, 0, 16, 16)
    /\ overlayRef = 0
    /\ pane = 0
    /\ InitStrategy
    /\ steps \in {l \in StepLists : \A k \in 1..Len(l) :
                     l[k].control = "none" /\ l[k].customCompleted = None}
    /\ stepsPresent = FALSE
    /\ stepHeaderPresent = TRUE
    /\ linear = FALSE
    /\ selectedIndex = 0
    /\ focusIndex = 0
    /\ selectionChange = <<>>
    /\ stepperCall = StepperCall("none", 0, "none")
    /\ dir \in {"none", "ltr", "rtl"}
    /\ orientation \in {"horizontal", "vertical"}
    /\ NoDirective

NextKeyboard ==
    \/ ResolveSteps
    \/ \E index \in KeyboardIndexes : SetSelectedIndex(index)
    \/ \E key \in Keys : OnKeydown(key)

SpecKeyboard == InitKeyboard /\ [][NextKeyboard]_vars

\* The values bound to the directive's positions input: undefined, the empty
\* list, and lists of one to three pairs, none in the order of the default.
PositionsInputs ==
    {None, Some(<<>>),
     Some(<<defaultPositionList[2]>>),
     Some(<<defaultPositionList[3], defaultPositionList[1]>>),
     Some(<<defaultPositionList[1], defaultPositionList[3]>>),
     Some(<<defaultPositionList[4], defaultPositionList[2], defaultPositionList[1]>>)}

\* The directive as constructed, with the positions input bound to any of
\* the values; the strategy and the stepper of the module's other parts stay
\* as constructed.
InitDirective ==
    /\ preferredPositions = <<>>
    /\ viewportMargin = 0
    /\ canPush = TRUE
    /\ growAfterOpen = FALSE
    /\ hasFlexibleHeight = FALSE
    /\ hasFlexibleWidth = FALSE
    /\ scrollables = <<>>
    /\ overlayState \in {s \in PlainStates : s.direction = "ltr"}
    /\ originEl = Rect(4, 4, 4, 4)
    /\ paneEl = Rect(0, 0, 4, 4)
    /\ viewportEl = Rect(0, 0, 16, 16)
    /\ overlayRef = 0
    /\ pane = 0
    /\ InitStrategy
    /\ NoStepper
    /\ openInput = FALSE
    /\ positionsInput \in PositionsInputs
    /\ directiveOverlayRef = 0
    /\ hasAttached = FALSE
    /\ strategyPositions = None
    /\ overlaysCreated = 0
    /\ strategiesCreated = 0
    /\ emitted = <<>>
    /\ lastEvent = "none"
    /\ hasBackdrop \in BOOLEAN
    /\ lockPosition \in BOOLEAN
    /\ backdropSubscribed = FALSE
    /\ strategyLocked = FALSE

NextDirective ==
    \/ \E newOpen \in BOOLEAN, newPositions \in PositionsInputs,
          newHasBackdrop \in BOOLEAN, newLockPosition \in BOOLEAN :
          OnChanges(newOpen, newPositions, newHasBackdrop, newLockPosition)
    \/ Escape

SpecDirective == InitDirective /\ [][NextDirective]_vars

----------------------------------------------------------------------------
(* What the last pass saw *)

\* A pass has measured; the cached rects are defined.
Measured == lastCall.method # "none"
\* The last call was an apply() that applied a position.
Applied == lastCall.method = "apply" /\ lastCall.outcome # "TypeError"

Candidates == 1..Len(preferredPositions)

\* The candidate at index i as the last pass computed it.
lastCandidate(i) ==
    candidate(i, preferredPositions, Val(originRect), Val(overlayRect), Val(viewportRect))

\* The overlay of the given size at the point lies inside the viewport, in the
\* coordinates _getOverlayFit works in: the box from (0, 0) to the narrowed
\* rect's (width, height).
WithinViewport(point, overlay, viewport) ==
    /\ 0 <= point.x
    /\ point.x + overlay.width <= viewport.width
    /\ 0 <= point.y
    /\ point.y + overlay.height <= viewport.height

FitsCompletely(i) ==
    WithinViewport(lastCandidate(i).overlayPoint, Val(overlayRect), Val(viewportRect))

\* The least member of a non-empty set of indices.
Least(S) == CHOOSE i \in S : \A j \in S : i <= j

----------------------------------------------------------------------------
(* Claims *)

\* C1: after apply(), if some candidate places the overlay completely within
\* the viewport, the position selected is the first such candidate of the list.
C1_FirstFit ==
    lastCall.method = "apply" =>
        LET fitting == {i \in Candidates : FitsCompletely(i)}
        IN fitting # {} => Applied /\ lastPosition = Least(fitting)

\* What the scan of the last apply() recorded.
lastScan ==
    scanPositions(1, preferredPositions, Val(originRect), Val(overlayRect),
                  Val(viewportRect), <<>>, 0)

\* The code's own verdict on candidate i in the last pass.
FlaggedComplete(i) == lastCandidate(i).overlayFit.isCompletelyWithinViewport
PassesFlexibleTest(i) ==
    canFitWithFlexibleDimensions(lastCandidate(i).overlayFit,
                                 lastCandidate(i).overlayPoint, Val(viewportRect))

\* C2: after apply(), if no candidate fits completely and some candidate
\* passes the flexible-minimum-size test, a candidate passing that test is
\* selected by the flexible path and the overlay is not marked as pushed.
C2_FlexibleBeforePush ==
    lastCall.method = "apply" =>
        LET flexible == {i \in Candidates : PassesFlexibleTest(i)}
        IN ((\A i \in Candidates : ~FitsCompletely(i) /\ ~FlaggedComplete(i))
              /\ flexible # {})
           => /\ Applied
              /\ lastCall.outcome = "flexible"
              /\ lastPosition \in flexible
              /\ ~isPushed

\* The score of candidate i in the last pass: bounding-box width x height x
\* weight, the weight taken as 1 when unset.
lastScore(i) ==
    flexibleScore(i, preferredPositions, Val(originRect), Val(viewportRect), TRUE)

\* C3: when the last apply() recorded flexible fits and no candidate fitted
\* completely, it selected the recorded candidate of the largest score, the
\* earliest of those of equal score; a candidate is always selected.
C3_BestFlexibleFit ==
    (lastCall.method = "apply" /\ lastScan.fit = 0 /\ lastScan.flexibleFits # <<>>) =>
        LET recorded == {lastScan.flexibleFits[k] : k \in 1..Len(lastScan.flexibleFits)}
        IN /\ Applied
           /\ lastPosition \in recorded
           /\ \A j \in recorded :
                 \/ lastScore(j) < lastScore(lastPosition)
                 \/ (lastScore(j) = lastScore(lastPosition) /\ lastPosition <= j)

\* The edges of a bounding-box rect in viewport coordinates: a CSS bottom or
\* right is a distance from the un-narrowed viewport's bottom or right edge.
BoxBottom(rect, viewport) ==
    IF IsSome(rect.top) THEN Val(rect.top) + rect.height
    ELSE (viewport.bottom + viewportMargin) - Val(rect.bottom)
BoxTop(rect, viewport) == BoxBottom(rect, viewport) - rect.height
BoxRight(rect, viewport) ==
    IF IsSome(rect.left) THEN Val(rect.left) + rect.width
    ELSE (viewport.right + viewportMargin) - Val(rect.right)
BoxLeft(rect, viewport) == BoxRight(rect, viewport) - rect.width

BoxWithin(rect, viewport) ==
    /\ viewport.top <= BoxTop(rect, viewport)
    /\ BoxBottom(rect, viewport) <= viewport.bottom
    /\ viewport.left <= BoxLeft(rect, viewport)
    /\ BoxRight(rect, viewport) <= viewport.right

\* C9: the bounding-box rect recorded for a candidate selected as a flexible
\* fit lies within the viewport rect narrowed by the margin.
C9_BoundingBoxWithinViewport ==
    (Applied /\ lastCall.outcome = "flexible") =>
        BoxWithin(Val(lastBoundingBoxRect), Val(viewportRect))

\* The overlay at the point keeps the margin to each edge of the viewport:
\* it lies in the box from (margin, margin) to the un-narrowed (width, height)
\* less the margin.
WithinInsetViewport(point, overlay, viewport) ==
    /\ viewportMargin <= point.x
    /\ point.x + overlay.width <= viewport.width + viewportMargin
    /\ viewportMargin <= point.y
    /\ point.y + overlay.height <= viewport.height + viewportMargin

\* C10: a candidate apply() selects as fitting completely (and that lies
\* within a box of the narrowed viewport's size) lies inside the viewport
\* inset by the margin on all four sides.
C10_MarginOnAllSides ==
    (Applied /\ lastCall.outcome = "complete" /\ FitsCompletely(lastPosition)) =>
        WithinInsetViewport(lastCandidate(lastPosition).overlayPoint,
                            Val(overlayRect), Val(viewportRect))

\* The point a pushed pass handed to _applyPosition: it is written as the
\* bounding box's left and top.
PushedPoint == Point(boundingBoxStyle.left.n, boundingBoxStyle.top.n)
PushedByApply == Applied /\ lastCall.outcome = "push"

\* C4: pushing an overlay no wider and no higher than the narrowed viewport
\* yields a point at which the overlay overflows none of the four edges.
C4_PushedWithinViewport ==
    (PushedByApply
       /\ Val(overlayRect).width <= Val(viewportRect).width
       /\ Val(overlayRect).height <= Val(viewportRect).height)
    => /\ Val(viewportRect).left <= PushedPoint.x
       /\ PushedPoint.x + Val(overlayRect).width <= Val(viewportRect).right
       /\ Val(viewportRect).top <= PushedPoint.y
       /\ PushedPoint.y + Val(overlayRect).height <= Val(viewportRect).bottom

\* A push of a fitting overlay that moved it, from past the near edge on one
\* axis or past the far edge on the other.
C4_Witness ==
    /\ PushedByApply
    /\ Val(overlayRect).width <= Val(viewportRect).width
    /\ Val(overlayRect).height <= Val(viewportRect).height
    /\ Val(viewportRect).width > 0
    /\ lastCandidate(lastPosition).overlayPoint.x < Val(viewportRect).left
    /\ lastCandidate(lastPosition).overlayPoint.y + Val(overlayRect).height
          > Val(viewportRect).bottom
    /\ PushedPoint # lastCandidate(lastPosition).overlayPoint

\* C5: pushing an overlay larger than the narrowed viewport on an axis puts
\* its near edge on that axis at the viewport's near edge, the overflow
\* falling past the far edge.
C5_PushAnchorsNearEdge ==
    PushedByApply =>
       /\ Val(overlayRect).width > Val(viewportRect).width
            => /\ PushedPoint.x = Val(viewportRect).left
               /\ PushedPoint.x + Val(overlayRect).width > Val(viewportRect).right
       /\ Val(overlayRect).height > Val(viewportRect).height
            => /\ PushedPoint.y = Val(viewportRect).top
               /\ PushedPoint.y + Val(overlayRect).height > Val(viewportRect).bottom

\* A push of an overlay wider than the viewport that started right of the
\* viewport's left edge.
C5_Witness ==
    /\ PushedByApply
    /\ Val(overlayRect).width > Val(viewportRect).width
    /\ lastCandidate(lastPosition).overlayPoint.x > Val(viewportRect).left

\* C6: with growAfterOpen false, a pass after the first never records or
\* writes a bounding-box width or height above the one recorded by the pass
\* before it, hence never above the first pass's.
C6_NeverGrowsAfterOpen ==
    [][(~isInitialRender /\ ~growAfterOpen) =>
          /\ lastBoundingBoxWidth' <= lastBoundingBoxWidth
          /\ lastBoundingBoxHeight' <= lastBoundingBoxHeight
          /\ boundingBoxStyle'.width.unit = "px"
                => boundingBoxStyle'.width.n <= lastBoundingBoxWidth
          /\ boundingBoxStyle'.height.unit = "px"
                => boundingBoxStyle'.height.n <= lastBoundingBoxHeight]_vars

\* The rect the last pass computed before clamping, for an un-pushed pass.
lastComputedRect ==
    calculateBoundingBoxRect(lastCandidate(lastPosition).originPoint,
                             preferredPositions[lastPosition], Val(viewportRect), FALSE)

\* A pass after a scroll whose computed box was higher than the recorded one:
\* the clamp acted.
C6_Witness ==
    /\ ~growAfterOpen
    /\ lastCall.outcome \in {"complete", "flexible", "applied"}
    /\ ~isPushed
    /\ hasFlexibleHeight
    /\ lastComputedRect.height > lastBoundingBoxHeight
    /\ boundingBoxStyle.height = Px(lastBoundingBoxHeight)

\* C7: a reapplyLastPosition() that follows a reapplyLastPosition() and
\* measures the same origin, overlay and viewport rects writes the same pane
\* and bounding-box geometry.
C7_ReapplyIdempotent ==
    [][(/\ lastCall.method = "reapplyLastPosition"
        /\ lastCall'.method = "reapplyLastPosition"
        /\ originRect' = originRect
        /\ overlayRect' = overlayRect
        /\ viewportRect' = viewportRect)
       => /\ paneStyle' = paneStyle
          /\ boundingBoxStyle' = boundingBoxStyle
          /\ lastBoundingBoxRect' = lastBoundingBoxRect]_vars

\* After a reapplyLastPosition() that applied a clamped box at a layout that
\* has not changed since: the state a second call starts from.
C7_Witness ==
    /\ lastCall = Call("reapplyLastPosition", "applied")
    /\ originRect = Some(originEl)
    /\ ~growAfterOpen
    /\ ~isPushed
    /\ lastComputedRect.height > lastBoundingBoxHeight

\* C8: reapplyLastPosition() applies and emits the recorded last position,
\* which stays the last position.
C8_ReapplyKeepsLastPosition ==
    [][(lastCall'.method = "reapplyLastPosition" /\ lastPosition # 0) =>
          /\ lastPosition' = lastPosition
          /\ Len(positionChange') = 1
          /\ positionChange'[1].connectionPair = lastPosition
          /\ LET pos == preferredPositions[lastPosition]
                 rect == Val(lastBoundingBoxRect')
             IN /\ IsSome(rect.bottom) <=> pos.overlayY = "bottom"
                /\ (~isPushed /\ pos.overlayY = "top") => paneStyle'.top = CssZero
                /\ (~isPushed /\ pos.overlayY = "bottom")
                      => paneStyle'.bottom = CssZero]_vars

\* After a reapplyLastPosition() at a layout where a candidate earlier in the
\* list than the one applied fits completely.
C8_Witness ==
    /\ lastCall = Call("reapplyLastPosition", "applied")
    /\ positionChange[1].connectionPair = lastPosition
    /\ \E i \in Candidates :
          i < lastPosition /\ FlaggedComplete(i) /\ FitsCompletely(i)

\* The candidates the scan of the last apply() visited: all of them, or those
\* up to the first one flagged as fitting completely.
Scanned(i) == lastScan.fit = 0 \/ i <= lastScan.fit
\* Candidate i was recorded as a flexible fit.
Recorded(i) == \E k \in 1..Len(lastScan.flexibleFits) : lastScan.flexibleFits[k] = i

minHeight == OrElse(overlayState.minHeight, 0)
minWidth == OrElse(overlayState.minWidth, 0)
\* The room from the overlay's point to the viewport's bottom and right edges.
RoomBelow(i) == Val(viewportRect).bottom - lastCandidate(i).overlayPoint.y
RoomRight(i) == Val(viewportRect).right - lastCandidate(i).overlayPoint.x

\* C11: of the candidates apply() scanned that do not fit completely, one
\* that overflows only vertically is recorded as a flexible fit when flexible
\* height is on and the minimum height fits, whatever flexible width is; one
\* that overflows only horizontally likewise with flexible width; with both
\* off none is recorded.
C11_FlexibleAxesIndependent ==
    lastCall.method = "apply" =>
        \A i \in Candidates :
            (Scanned(i) /\ ~FlaggedComplete(i)) =>
                LET fit == lastCandidate(i).overlayFit
                IN /\ (~hasFlexibleHeight /\ ~hasFlexibleWidth) => ~Recorded(i)
                   /\ (fit.fitsInViewportHorizontally /\ ~fit.fitsInViewportVertically
                         /\ hasFlexibleHeight /\ minHeight <= RoomBelow(i))
                      => Recorded(i)
                   /\ (fit.fitsInViewportVertically /\ ~fit.fitsInViewportHorizontally
                         /\ hasFlexibleWidth /\ minWidth <= RoomRight(i))
                      => Recorded(i)

\* The space from candidate i's origin point to the viewport edge the overlay
\* opens toward: the bottom edge for overlayY top, the top edge for overlayY
\* bottom; the right edge when the overlay opens rightward (overlayX start in
\* ltr, end in rtl), the left edge otherwise.
SpaceToEdgeY(i) ==
    IF preferredPositions[i].overlayY = "top"
    THEN Val(viewportRect).bottom - lastCandidate(i).originPoint.y
    ELSE lastCandidate(i).originPoint.y - Val(viewportRect).top
SpaceToEdgeX(i) ==
    IF (preferredPositions[i].overlayX = "start") # isRtl
    THEN Val(viewportRect).right - lastCandidate(i).originPoint.x
    ELSE lastCandidate(i).originPoint.x - Val(viewportRect).left

\* C12: a scanned candidate anchored on an edge on both axes that does not
\* fit completely is recorded as a flexible fit exactly when flexible sizing
\* is on and, on each axis it overflows, that axis is flexible and the
\* minimum size (0 when unset) fits in the space from the origin point to the
\* viewport edge the overlay opens toward.
C12_MinimumFitsTowardOpeningEdge ==
    lastCall.method = "apply" =>
        \A i \in Candidates :
            (Scanned(i) /\ ~FlaggedComplete(i)
               /\ preferredPositions[i].overlayX # "center"
               /\ preferredPositions[i].overlayY # "center")
            => LET fit == lastCandidate(i).overlayFit
               IN Recorded(i) <=>
                    /\ hasFlexibleHeight \/ hasFlexibleWidth
                    /\ fit.fitsInViewportVertically
                         \/ (hasFlexibleHeight /\ minHeight <= SpaceToEdgeY(i))
                    /\ fit.fitsInViewportHorizontally
                         \/ (hasFlexibleWidth /\ minWidth <= SpaceToEdgeX(i))

\* The area of the overlay at candidate i's point that lies inside the
\* viewport, in the coordinates _getOverlayFit works in.
VisibleArea(i) ==
    LET point == lastCandidate(i).overlayPoint
        w == Min(point.x + Val(overlayRect).width, Val(viewportRect).width) - Max(point.x, 0)
        h == Min(point.y + Val(overlayRect).height, Val(viewportRect).height) - Max(point.y, 0)
    IN Max(w, 0) * Max(h, 0)

\* C13: when the scan of apply() found no complete and no flexible fit, the
\* candidate apply() falls back to has the largest visible area of all
\* candidates and is the earliest of those with that area.
C13_FallbackLargestVisibleArea ==
    (Applied /\ lastScan.fit = 0 /\ lastScan.flexibleFits = <<>>) =>
        \A j \in Candidates :
            \/ VisibleArea(j) < VisibleArea(lastPosition)
            \/ (VisibleArea(j) = VisibleArea(lastPosition) /\ lastPosition <= j)

\* C15: every apply() on a non-empty list of positions emits exactly one
\* position-change event; the pair it carries is a member of the list and is
\* the recorded last position.
C15_OnePlacementPerPass ==
    (lastCall.method = "apply" /\ overlayRef # 0 /\ preferredPositions # <<>>) =>
        /\ Len(positionChange) = 1
        /\ positionChange[1].connectionPair \in Candidates
        /\ lastPosition = positionChange[1].connectionPair

\* C14: when apply() falls back without pushing, it writes the un-pushed
\* placement of the fallback candidate: the bounding box takes its edges from
\* the rect anchored at the candidate's origin point and no 'normal'
\* alignment, and the pane is aligned to the edges the candidate names.
C14_FallbackWritesUnpushedGeometry ==
    (Applied /\ lastCall.outcome = "fallback") =>
        LET pos == preferredPositions[lastPosition]
            rect == Val(lastBoundingBoxRect)
        IN /\ boundingBoxStyle.top = PxIfTruthy(rect.top)
           /\ boundingBoxStyle.bottom = PxIfTruthy(rect.bottom)
           /\ boundingBoxStyle.left = PxIfTruthy(rect.left)
           /\ boundingBoxStyle.right = PxIfTruthy(rect.right)
           /\ boundingBoxStyle.alignItems = CssUnset
           /\ boundingBoxStyle.justifyContent = CssUnset
           /\ pos.overlayY = "top" => paneStyle.top = CssZero
           /\ pos.overlayY = "bottom" => paneStyle.bottom = CssZero
           /\ pos.overlayX = "start" => paneStyle.left = CssZero
           /\ pos.overlayX = "end" => paneStyle.right = CssZero

\* C16: attach() on a strategy that has an overlay attached ends in an error
\* and leaves the strategy bound to the overlay and pane it had.
C16_SecondAttachThrows ==
    [][(overlayRef # 0 /\ lastCall'.method = "attach") =>
          /\ lastCall'.outcome = "Error"
          /\ overlayRef' = overlayRef
          /\ pane' = pane]_vars

\* attach() with another overlay was refused on a strategy bound to overlay 1
\* that has applied a position.
C16_Witness ==
    /\ lastCall = Call("attach", "Error")
    /\ overlayRef = 1 /\ pane = 1
    /\ lastPosition # 0

C18_EmptyListThrows ==
    [][(lastCall'.method = "apply" /\ overlayRef # 0 /\ preferredPositions = <<>>) =>
          /\ lastCall'.outcome = "TypeError"
          /\ positionChange' = <<>>
          /\ lastPosition' = 0]_vars

\* An attached strategy without positions, after apply() threw.
C18_Witness ==
    /\ lastCall = Call("apply", "TypeError")
    /\ overlayRef # 0
    /\ preferredPositions = <<>>
    /\ boundingBox = "attached"

\* The x of the origin's edge a start/end/center label names in the current
\* direction: start is the left edge in ltr and the right edge in rtl, end the
\* opposite one, center the horizontal midpoint in both.
OriginEdgeX(rect, label) ==
    IF label = "center" THEN rect.left + (rect.width \div 2)
    ELSE IF (label = "start") = (overlayState.direction = "ltr") THEN rect.left
    ELSE rect.right

\* C20: the origin connection point of every candidate has its x at the
\* origin's horizontal midpoint for originX center in both directions, and at
\* the left/right edge for start/end, swapped when the direction is rtl.
C20_OriginPointDirection ==
    Applied =>
        \A i \in Candidates :
            lastCandidate(i).originPoint.x =
                OriginEdgeX(Val(originRect), preferredPositions[i].originX)

\* The horizontal mirror image of a style: what it says of the left edge said
\* of the right edge and the reverse, the vertical geometry and the sizes as
\* they are.
MirrorBox(style) == [style EXCEPT !.left = style.right, !.right = style.left]
MirrorPane(style) ==
    [style EXCEPT !.left = style.right, !.right = style.left,
                  !.marginLeft = style.marginRight, !.marginRight = style.marginLeft]

\* The position is anchored at center on the x axis.
CenteredOnX(pos) == pos.originX = "center" /\ pos.overlayX = "center"

\* C19: a pass in rtl over the list with start and end exchanged, after a
\* pass in ltr over the original list for the same origin, pane and viewport,
\* writes pane and bounding-box geometry that is the horizontal mirror image
\* of what the ltr pass wrote; when the position it applies is anchored at
\* center on the x axis it writes the same geometry.
C19_DirectionMirroring ==
    [][(/\ lastCall.method = "withPositions"
        /\ isRtl
        /\ lastCall'.method = "apply"
        /\ lastCall'.outcome # "TypeError") =>
          IF CenteredOnX(preferredPositions[lastPosition'])
          THEN /\ paneStyle' = paneStyle
               /\ boundingBoxStyle' = boundingBoxStyle
          ELSE /\ paneStyle' = MirrorPane(paneStyle)
               /\ boundingBoxStyle' = MirrorBox(boundingBoxStyle)]_vars

\* The x and y of the overlay's corner or edge the candidate at index i names
\* (start is the left edge in ltr and the right edge in rtl), for the overlay
\* placed at the candidate's overlay point.
NamedOverlayX(i) ==
    LET c == lastCandidate(i)
        width == Val(overlayRect).width
    IN IF c.pos.overlayX = "center" THEN c.overlayPoint.x + (width \div 2)
       ELSE IF (c.pos.overlayX = "start") = (overlayState.direction = "ltr")
       THEN c.overlayPoint.x
       ELSE c.overlayPoint.x + width
NamedOverlayY(i) ==
    LET c == lastCandidate(i)
        height == Val(overlayRect).height
    IN IF c.pos.overlayY = "center" THEN c.overlayPoint.y + (height \div 2)
       ELSE IF c.pos.overlayY = "top" THEN c.overlayPoint.y
       ELSE c.overlayPoint.y + height

\* The worked placement: below the origin, start-aligned, in ltr.
ExampleCase ==
    /\ originEl = ExampleOrigin
    /\ paneEl = ExamplePane
    /\ viewportEl = ExampleViewport
    /\ overlayState.direction = "ltr"
    /\ preferredPositions = <<Position("start", "bottom", "start", "top", None, 0, 0)>>

\* C21: the overlay point of every candidate puts the overlay's named corner
\* or edge on the candidate's origin connection point; in the worked placement
\* the overlay point is (50, 120), the candidate is applied as a complete fit
\* and the overlay is not pushed.
C21_OverlayPointAtOriginPoint ==
    Applied =>
        /\ \A i \in Candidates :
              /\ NamedOverlayX(i) = lastCandidate(i).originPoint.x
              /\ NamedOverlayY(i) = lastCandidate(i).originPoint.y
        /\ ExampleCase =>
              /\ lastCandidate(1).overlayPoint = Point(50, 120)
              /\ lastCall.outcome = "complete"
              /\ lastPosition = 1
              /\ ~isPushed
              /\ boundingBoxStyle.top = Px(120) /\ boundingBoxStyle.left = Px(50)

\* The worked placement after apply().
C21_Witness ==
    /\ Applied
    /\ ExampleCase
    /\ paneStyle.top = CssZero

\* The two positions differ at most in their offsets.
SameButOffsets(p, q) ==
    [p EXCEPT !.offsetX = 0, !.offsetY = 0] = [q EXCEPT !.offsetX = 0, !.offsetY = 0]

\* C22: the points at which two candidates that differ only in their offsets
\* are tested for fit differ by exactly the difference of the offsets.
C22_FitPointDisplacedByOffsets ==
    Applied =>
        \A i, j \in Candidates :
            SameButOffsets(preferredPositions[i], preferredPositions[j]) =>
                /\ lastCandidate(i).overlayPoint.x - lastCandidate(j).overlayPoint.x
                      = preferredPositions[i].offsetX - preferredPositions[j].offsetX
                /\ lastCandidate(i).overlayPoint.y - lastCandidate(j).overlayPoint.y
                      = preferredPositions[i].offsetY - preferredPositions[j].offsetY

\* C23: in a pass of apply() no measurement follows a style write: every
\* layout read of the pass comes before its first write to the pane or the
\* bounding box.
C23_MeasureBeforeWrite ==
    lastCall.method = "apply" =>
        \A i, j \in 1..Len(passLog) :
            (passLog[i].kind = "write" /\ passLog[j].kind = "measure") => j < i

\* C24: a pass of apply() that follows an earlier pass over the same layout
\* and configuration, with only the scrollable containers replaced in
\* between, applies the same candidate and writes the same geometry; only the
\* four flags of the emitted event may differ.
C24_ScrollablesNeverInfluenceFit ==
    [][(/\ lastCall.method = "withScrollableContainers"
        /\ lastPosition # 0
        /\ lastCall'.method = "apply") =>
          /\ lastCall'.outcome # "TypeError"
          /\ lastPosition' = lastPosition
          /\ positionChange'[1].connectionPair = lastPosition
          /\ isPushed' = isPushed
          /\ paneStyle' = paneStyle
          /\ boundingBoxStyle' = boundingBoxStyle
          /\ lastBoundingBoxRect' = lastBoundingBoxRect]_vars

\* A pass that pushed the overlay on screen and reported the origin clipped
\* by one of two containers.
C24_Witness ==
    /\ lastCall = Call("apply", "push")
    /\ Len(scrollables) = 2
    /\ positionChange[1].scrollableViewProperties.isOriginClipped
    /\ ~positionChange[1].scrollableViewProperties.isOverlayClipped

\* The two rects overlap on both axes (touching edges overlap).
Overlap(t, c) ==
    /\ t.top <= c.bottom /\ c.top <= t.bottom
    /\ t.left <= c.right /\ c.left <= t.right

\* The rect t extends past no edge of the rect c.
Within(t, c) ==
    /\ c.top <= t.top /\ t.bottom <= c.bottom
    /\ c.left <= t.left /\ t.right <= c.right

\* The supplied containers.
SuppliedContainers == {scrollables[i] : i \in 1..Len(scrollables)}

\* C25: the four flags of an emitted event are per-container tests reduced
\* with OR: outside-view holds iff the target rect lies fully above, below,
\* left or right of some supplied container, clipped iff it extends past an
\* edge of some supplied container; with no containers all four are false.
C25_ScrollFlagsAnyContainer ==
    positionChange # <<>> =>
        LET flags == positionChange[1].scrollableViewProperties
        IN /\ flags.isOriginOutsideView
                <=> \E c \in SuppliedContainers : ~Overlap(Val(originRect), c)
           /\ flags.isOverlayOutsideView
                <=> \E c \in SuppliedContainers : ~Overlap(Val(overlayRect), c)
           /\ flags.isOriginClipped
                <=> \E c \in SuppliedContainers : ~Within(Val(originRect), c)
           /\ flags.isOverlayClipped
                <=> \E c \in SuppliedContainers : ~Within(Val(overlayRect), c)
           /\ scrollables = <<>> =>
                 /\ ~flags.isOriginOutsideView /\ ~flags.isOverlayOutsideView
                 /\ ~flags.isOriginClipped /\ ~flags.isOverlayClipped

\* An event for two containers of which only one has the origin outside its
\* view.
C25_Witness ==
    /\ positionChange # <<>>
    /\ Len(scrollables) = 2
    /\ positionChange[1].scrollableViewProperties.isOriginOutsideView
    /\ \E c \in SuppliedContainers : Overlap(Val(originRect), c)

\* The weight is unset or 0.
UnsetOrZero(w) == w = None \/ w = Some(0)

\* The lists obtained from the list by exchanging, on any of its candidates,
\* an unset weight for 0 or a weight of 0 for an unset one.
ZeroWeightVariants(positions) ==
    {[i \in 1..Len(positions) |->
        IF i \in S /\ UnsetOrZero(positions[i].weight)
        THEN [positions[i] EXCEPT !.weight = IF @ = None THEN Some(0) ELSE None]
        ELSE positions[i]] : S \in SUBSET (1..Len(positions))}

\* C26: a weight of 0 counts as an unset weight: a pass of apply() ends the
\* same way and applies the candidate at the same index as it would for any
\* list in which unset weights and weights of 0 are exchanged.
C26_ZeroWeightAsUnset ==
    [][lastCall'.method = "apply" =>
          \A variant \in ZeroWeightVariants(preferredPositions) :
              LET d == applyDecision(variant, originEl, paneEl,
                                     narrowViewportRect(viewportEl, viewportMargin),
                                     isInitialRender)
              IN /\ d.branch = lastCall'.outcome
                 /\ d.branch # "TypeError" => d.pos = lastPosition']_vars

\* A pass that chose between two flexible fits and applied the second, whose
\* weight is 0, over a first whose weight is unset.
C26_Witness ==
    /\ lastCall = Call("apply", "flexible")
    /\ Len(lastScan.flexibleFits) = 2
    /\ lastPosition = 2
    /\ preferredPositions[1].weight = None
    /\ preferredPositions[2].weight = Some(0)

\* The last call ended in the selectedIndex setter while the step list was
\* present.
SetterRan == stepsPresent /\ stepperCall.method = "selectedIndex"

\* C27: once the step list is present, handing the selectedIndex setter an
\* index below 0 or above the last step's index throws the out-of-bounds
\* Error and leaves selectedIndex and the focus index as they were, with no
\* selectionChange emitted.
C27_OutOfBoundsRejected ==
    [][(/\ stepsPresent
        /\ stepperCall'.method = "selectedIndex"
        /\ (stepperCall'.index < 0 \/ stepperCall'.index > Len(steps) - 1))
       => /\ stepperCall'.outcome = "Error"
          /\ selectedIndex' = selectedIndex
          /\ focusIndex' = focusIndex
          /\ selectionChange' = <<>>]_vars

\* An assignment of the index one past the last step was refused while the
\* focus index differed from the selected index.
C27_Witness ==
    /\ SetterRan
    /\ stepperCall.index = Len(steps)
    /\ stepperCall.outcome = "Error"
    /\ selectedIndex \in 0..(Len(steps) - 1)
    /\ focusIndex # selectedIndex

\* C28: reset() on a stepper with at least one step leaves selectedIndex at 0
\* and every step with interacted false, whichever step was selected and
\* whatever the editable flags of the steps.
C28_ResetReturnsToFirstStep ==
    [][(stepsPresent /\ Len(steps) >= 1 /\ stepperCall'.method = "reset")
       => /\ selectedIndex' = 0
          /\ \A k \in 1..Len(steps') : ~steps'[k].interacted]_vars

\* A step that holds a linear stepper back: it is not optional and it is
\* incomplete (its control is invalid or pending, or, without a control, it
\* is not completed).
HoldsBack(step) ==
    /\ ~step.optional
    /\ \/ step.control \in {"INVALID", "PENDING"}
       \/ step.control = "none" /\ ~completed(step)

\* The steps before the 0-based index i, as the call leaves them.
StepsBefore(i) == {k \in 1..Len(steps') : k <= i}

C29_Refused ==
    /\ SetterRan
    /\ linear
    /\ stepperCall.outcome = "blurred"
    /\ stepperCall.index > selectedIndex
    /\ steps[selectedIndex + 1].control = "INVALID"

\* The call this step made handed the setter an index that lies before the
\* selected index and whose step is not editable.
BackOntoLocked ==
    /\ stepperCall'.method \in {"selectedIndex", "reset"}
    /\ stepperCall'.index \in 0..(Len(steps) - 1)
    /\ stepperCall'.index < selectedIndex
    /\ ~steps[stepperCall'.index + 1].editable

\* The selected index went down to the index of a step that is not editable.
MovedBackOntoLocked ==
    /\ selectedIndex' < selectedIndex
    /\ selectedIndex' \in 0..(Len(steps) - 1)
    /\ ~steps[selectedIndex' + 1].editable

StepIndexes == 0..(Len(steps) - 1)

\* C31: whenever the step list is present and not empty, selectedIndex is the
\* index of a step after every call; a setter call for the index next() forms
\* on the last step, or previous() forms on the first, leaves selectedIndex
\* as it was.
C31_SelectedIndexInRange ==
    [][/\ (stepsPresent' /\ Len(steps') >= 1) => selectedIndex' \in 0..(Len(steps') - 1)
       /\ (/\ stepsPresent
           /\ stepperCall'.method = "selectedIndex"
           /\ selectedIndex \in {0, Len(steps) - 1}
           /\ stepperCall'.index = selectedIndex)
          => selectedIndex' = selectedIndex]_vars

\* What C32 says of one call: an event is emitted exactly when selectedIndex
\* changes; it carries the new and the previous index, which differ; a
\* refused selection and a selection of the selected index emit nothing; a
\* change leaves the focus index on the new selectedIndex.
EmitsExactlyOnChange ==
    /\ (selectionChange' # <<>>) = (selectedIndex' # selectedIndex)
    /\ selectionChange' # <<>> =>
          /\ Len(selectionChange') = 1
          /\ selectionChange'[1].selectedIndex = selectedIndex'
          /\ selectionChange'[1].previouslySelectedIndex = selectedIndex
          /\ selectionChange'[1].selectedIndex # selectionChange'[1].previouslySelectedIndex
    /\ (stepperCall'.outcome = "blurred" \/ stepperCall'.index = selectedIndex)
          => selectionChange' = <<>>
    /\ selectedIndex' # selectedIndex => focusIndex' = selectedIndex'

\* C32 as stated: every call emits selectionChange exactly when it changes
\* selectedIndex, whether or not the step list has been resolved.
C32_EmitsOnChangeAtAnyTime == [][EmitsExactlyOnChange]_vars

\* C32: once the step list is present, a call emits selectionChange exactly
\* when it changes selectedIndex; the event carries the new index and the
\* index held before, which differ; a refused selection and a selection of
\* the selected index emit nothing; after a change the focus index equals
\* the new selectedIndex.
C32_EmitsOnChange == [][stepsPresent => EmitsExactlyOnChange]_vars

\* A selection moved back from a later step to an earlier one and emitted its
\* event.
C32_Witness ==
    /\ SetterRan
    /\ stepperCall.outcome = "selected"
    /\ Len(selectionChange) = 1
    /\ selectionChange[1].selectedIndex = selectedIndex
    /\ selectionChange[1].previouslySelectedIndex > selectedIndex
    /\ focusIndex = selectedIndex

\* The key moves the focus to the next header in this layout.
FocusesNext(key) ==
    \/ key = "RIGHT_ARROW" /\ dir # "rtl"
    \/ key = "LEFT_ARROW" /\ dir = "rtl"
    \/ key = "DOWN_ARROW" /\ orientation = "vertical"

\* The key moves the focus to the previous header in this layout.
FocusesPrevious(key) ==
    \/ key = "LEFT_ARROW" /\ dir # "rtl"
    \/ key = "RIGHT_ARROW" /\ dir = "rtl"
    \/ key = "UP_ARROW" /\ orientation = "vertical"

\* The keys that move the focus.
FocusKeys == {"RIGHT_ARROW", "LEFT_ARROW", "UP_ARROW", "DOWN_ARROW", "HOME", "END"}

\* The key moves the focus in this layout.
Navigates(key) ==
    FocusesNext(key) \/ FocusesPrevious(key) \/ key \in {"HOME", "END"}

\* C33: a key that moves the focus leaves the focus index on the index of a
\* step; next from the last index gives 0, previous from 0 gives the last
\* index, HOME gives 0 and END the last index; no focus key changes the
\* selected index.
C33_FocusWrapsWithinRange ==
    [][stepperCall'.method \in FocusKeys =>
          LET key == stepperCall'.method
              last == Len(steps) - 1
          IN /\ Navigates(key) => focusIndex' \in 0..last
             /\ selectedIndex' = selectedIndex
             /\ (FocusesNext(key) /\ focusIndex = last) => focusIndex' = 0
             /\ (FocusesPrevious(key) /\ focusIndex = 0) => focusIndex' = last
             /\ key = "HOME" => focusIndex' = 0
             /\ key = "END" => focusIndex' = last]_vars

\* C34: a reapplyLastPosition() that follows an apply() pass directly, at the
\* same rects, direction and configuration, leaves the pane and bounding-box
\* geometry as apply() wrote it, whichever branch apply() took.
C34_ReapplyAfterApplyKeepsGeometry ==
    [][(/\ lastCall.method = "apply"
        /\ lastCall.outcome # "TypeError"
        /\ lastCall'.method = "reapplyLastPosition"
        /\ UNCHANGED <<config, layout>>)
       => /\ paneStyle' = paneStyle
          /\ boundingBoxStyle' = boundingBoxStyle]_vars

\* C35: on an attached strategy with a position list that is not empty and
\* no last position recorded, reapplyLastPosition() completes and applies the
\* first preferred position.
C35_ReapplyBeforeApply ==
    [][(/\ overlayRef # 0
        /\ Len(preferredPositions) >= 1
        /\ lastPosition = 0
        /\ lastCall'.method = "reapplyLastPosition")
       => /\ lastCall'.outcome = "applied"
          /\ lastPosition' = 1
          /\ Len(positionChange') = 1
          /\ positionChange'[1].connectionPair = 1]_vars

\* C36: the directive's attach and detach events alternate, starting with
\* attach: a handler emits detach only while the overlay is attached and the
\* last event was attach, and emits attach only when the last event was not
\* attach.
C36_AttachDetachAlternate ==
    [][/\ Len(emitted') <= 1
       /\ emitted' = <<"detach">> => (hasAttached /\ lastEvent = "attach")
       /\ emitted' = <<"attach">> => lastEvent # "attach"]_vars

\* The list is missing or empty.
MissingOrEmpty(field) == field = None \/ Val(field) = <<>>

\* The two lists name the same connection points at every rank.
SameRanking(candidates, list) ==
    /\ Len(candidates) = Len(list)
    /\ \A i \in 1..Len(list) :
          /\ candidates[i].originX = list[i].originX
          /\ candidates[i].originY = list[i].originY
          /\ candidates[i].overlayX = list[i].overlayX
          /\ candidates[i].overlayY = list[i].overlayY

\* The four-entry dropdown list, most preferred first.
DropdownList ==
    <<[originX |-> "start", originY |-> "bottom", overlayX |-> "start", overlayY |-> "top"],
      [originX |-> "start", originY |-> "top", overlayX |-> "start", overlayY |-> "bottom"],
      [originX |-> "end", originY |-> "top", overlayX |-> "end", overlayY |-> "bottom"],
      [originX |-> "end", originY |-> "bottom", overlayX |-> "end", overlayY |-> "top"]>>

\* C37: the strategy the directive built ranks its candidates in the order
\* of the positions input, and ranks the dropdown list when the input is
\* missing or empty; the overlay and the strategy are created at most once.
C37_StrategyFollowsPositions ==
    /\ overlaysCreated <= 1
    /\ strategiesCreated <= 1
    /\ strategyPositions # None =>
          IF MissingOrEmpty(positionsInput)
          THEN SameRanking(Val(strategyPositions), DropdownList)
          ELSE SameRanking(Val(strategyPositions), Val(positionsInput))

====
